---- MODULE Spec2Model ----
(***************************************************************************)
(* Broker service of the trading-bot backend                               *)
(* (src/backend/services/broker_service.py): the registry of named broker  *)
(* connections, the connector variants behind it and the trade history.    *)
(*                                                                         *)
(* Two threads use the service: a control-plane request (connect_broker,   *)
(* disconnect_broker, src/backend/api/routes.py:157,205) and the trading   *)
(* loop (execute_signals, src/backend/app.py:352).  disconnect_broker and  *)
(* execute_signals are modelled statement by statement.  Spec runs one     *)
(* call at a time; SpecRace lets the loop thread run between the           *)
(* statements of a request; SpecConnector calls the connector classes      *)
(* directly.                                                               *)
(*                                                                         *)
(* The trading loop of src/backend/app.py (handle_start_trading,           *)
(* handle_stop_trading, run_trading_loop) is SpecTrading: two request      *)
(* threads and the loop threads, interleaved statement by statement.       *)
(* SpecSession follows one session from its request to the end of its      *)
(* thread; SpecTerminals connects two brokers of the MT5Connector class.   *)
(*                                                                         *)
(* The ML service (src/backend/services/ml_service.py): SpecML calls the   *)
(* aggregation, the prediction mapping and the feature builder on their    *)
(* own; SpecModels runs the model registry (load, save, delete,            *)
(* description update) and generate_signals.  SpecDdns runs                *)
(* update_ddns_record of src/backend/services/ddns_service.py.             *)
(*                                                                         *)
(* Numbers: a signal strength s in [0,1] is the integer 10*s (tenths).     *)
(***************************************************************************)
EXTENDS Integers, Sequences, FiniteSets, TLC

VARIABLES
    connections,    \* BrokerService.connections: the dict, as a set of [key, val] items
    heap,           \* the BrokerConnection objects alive; a conn is a slot of it
    trade_history,  \* BrokerService.trade_history: sequence of TradeExecution records
    mt5_session,    \* the process-wide MetaTrader5 terminal session: broker logged in, or "none"
    orders_sent,    \* number of orders the broker SDKs have accepted
    ctl,            \* the control-plane call: its frame, until it has returned
    exe,            \* the execute_signals call of the trading loop: its frame
    probe,          \* the last direct call of a connector or ML method and its result
    app_state,      \* src/backend/app.py AppState: trading_active, trading_sessions, ...
    db,             \* the TradingSession rows of the database, by session id
    start,          \* the start_trading handlers in progress: their frames
    stop,           \* the stop_trading handler in progress: its frame
    loop,           \* the run_trading_loop threads, by session id: their frames
    ml,             \* the MLService object: loaded_models, model_scalers, model_info
    ddns            \* the DDNSService object, with the update_ddns_record call in progress

brokerVars == <<connections, heap, trade_history, mt5_session, orders_sent, ctl, exe>>

appVars == <<app_state, db, start, stop, loop>>

serviceVars == <<ml, ddns>>

vars == <<connections, heap, trade_history, mt5_session, orders_sent, ctl, exe, probe,
          app_state, db, start, stop, loop, ml, ddns>>

----------------------------------------------------------------------------
\* Bounds of the model

\* records the trade history holds at most: a batch starts only if it fits
MaxTrades == 2

\* BrokerConnection objects alive at once
HeapSlots == 4

----------------------------------------------------------------------------
\* BrokerService.supported_brokers: name -> BrokerInfo (type, connector_class)

BrokerInfo(t, c) == [type |-> t, connector_class |-> c]

supported_brokers ==
    [n \in {"XM", "IC Markets", "RoboForex", "InstaForex", "FBS", "Admiral Markets"}
        |-> BrokerInfo("forex", "MT5Connector")]
    @@ ("XTB" :> BrokerInfo("forex", "XTBConnector"))
    @@ ("IG Group" :> BrokerInfo("cfd", "IGConnector"))
    @@ ("Plus500" :> BrokerInfo("cfd", "Plus500Connector"))
    @@ ("SabioTrade" :> BrokerInfo("forex", "SabioConnector"))
    @@ [n \in {"Binance", "Coinbase Pro", "Kraken", "Bitstamp", "Bitfinex", "Gemini",
               "Huobi", "OKX", "Bybit", "KuCoin", "Bittrex"}
        |-> BrokerInfo("crypto", "CCXTConnector")]

\* The connector classes with a placeholder implementation
PlaceholderClasses == {"XTBConnector", "IGConnector", "Plus500Connector", "SabioConnector"}

ConnectorClasses == {"MT5Connector", "CCXTConnector"} \cup PlaceholderClasses

----------------------------------------------------------------------------
\* Python dict, as a set of items [key, val] (d[k] = v replaces the item of k)

DictHas(d, k) == \E e \in d : e.key = k

DictGet(d, k) == (CHOOSE e \in d : e.key = k).val

DictSet(d, k, v) == {e \in d : e.key # k} \cup {[key |-> k, val |-> v]}

DictDel(d, k) == {e \in d : e.key # k}

DictKeys(d) == {e.key : e \in d}

----------------------------------------------------------------------------
\* Inputs

\* broker names a request may carry: MT5-style, exchange-style, a placeholder,
\* and a name the catalog does not have
RequestNames == {"XM", "Binance", "XTB", "Acme"}

\* the brokers whose connector class is a placeholder
PlaceholderNames == {n \in DOMAIN supported_brokers :
                        supported_brokers[n].connector_class \in PlaceholderClasses}

\* credentials, as the set of keys of the credentials dict
CredentialSets ==
    { {"login", "password", "server"}, {"api_key", "secret"}, {"api_key"} }

\* what the SDK does when a connector connects
SdkConnectOutcomes(cls) ==
    IF cls = "MT5Connector" THEN {"ok", "init_fail", "login_fail", "raises"}
    ELSE IF cls = "CCXTConnector" THEN {"ok", "raises"}
    ELSE {"unused"}

----------------------------------------------------------------------------
\* BrokerService._validate_credentials

RequiredFields(info) ==
    IF info.type = "forex" /\ info.connector_class = "MT5Connector"
    THEN {"login", "password", "server"}
    ELSE IF info.type = "crypto"
    THEN {"api_key", "secret"}
    ELSE {"api_key"}

\* faulty variant: any() in place of all()
ValidateCredentials_Any(broker_name, credentials) ==
    \E field \in RequiredFields(supported_brokers[broker_name]) : field \in credentials

ValidateCredentials(broker_name, credentials) ==
    \A field \in RequiredFields(supported_brokers[broker_name]) : field \in credentials

\* BrokerService._create_connector: the class constructed, "None" for an unknown class
CreateConnector(info) ==
    IF info.connector_class \in ConnectorClasses THEN info.connector_class ELSE "None"

\* faulty variant: a placeholder reports a connection
ConnectorConnect_PlaceholderOk(cls, credentials, sdk) ==
    IF cls = "MT5Connector"
    THEN /\ sdk \notin {"init_fail", "login_fail", "raises"}
         /\ {"login", "password", "server"} \subseteq credentials
    ELSE IF cls = "CCXTConnector"
    THEN /\ {"api_key", "secret"} \subseteq credentials
         /\ sdk # "raises"
    ELSE TRUE

\* <Connector>.connect(): TRUE iff the connector reports a connection.
\* A missing credential key (KeyError) and an SDK exception are caught inside.
ConnectorConnect(cls, credentials, sdk) ==
    IF cls = "MT5Connector"
    THEN /\ sdk # "init_fail"
         /\ {"login", "password", "server"} \subseteq credentials
         /\ sdk # "login_fail"
         /\ sdk # "raises"
    ELSE IF cls = "CCXTConnector"
    THEN /\ {"api_key", "secret"} \subseteq credentials
         /\ sdk # "raises"
    ELSE FALSE

\* The MT5 terminal session after <Connector>.connect(): mt5.login switches the
\* process-wide terminal to this connector's account
SessionAfterConnect(cls, name, credentials, sdk, session) ==
    IF cls = "MT5Connector" /\ ConnectorConnect(cls, credentials, sdk)
    THEN name
    ELSE session

----------------------------------------------------------------------------
\* BrokerService.connect_broker, as the trace of what the call does and its result

\* faulty variant: `if connector:` in place of `if connector and connector.connect():`
ConnectBrokerRun_NoConnectCheck(broker_name, credentials, sdk) ==
    IF broker_name \notin DOMAIN supported_brokers
    THEN [value |-> FALSE, events |-> <<>>]
    ELSE IF ~ValidateCredentials(broker_name, credentials)
    THEN [value |-> FALSE, events |-> <<"validate">>]
    ELSE LET cls == CreateConnector(supported_brokers[broker_name]) IN
         IF cls = "None"
         THEN [value |-> FALSE, events |-> <<"validate", "create">>]
         ELSE [value |-> TRUE, events |-> <<"validate", "create", "construct", "assign">>]

ConnectBrokerRun(broker_name, credentials, sdk) ==
    IF broker_name \notin DOMAIN supported_brokers
    THEN [value |-> FALSE, events |-> <<>>]
    ELSE IF ~ValidateCredentials(broker_name, credentials)
    THEN [value |-> FALSE, events |-> <<"validate">>]
    ELSE LET cls == CreateConnector(supported_brokers[broker_name]) IN
         IF cls = "None"
         THEN [value |-> FALSE, events |-> <<"validate", "create">>]
         ELSE IF ConnectorConnect(cls, credentials, sdk)
         THEN [value |-> TRUE, events |-> <<"validate", "create", "construct", "connect", "assign">>]
         ELSE [value |-> FALSE, events |-> <<"validate", "create", "construct", "connect">>]

\* BrokerConnection(name, broker_type, connector, credentials, connected_at, is_active=True)
NewConnection(broker_name, credentials) ==
    [name |-> broker_name,
     broker_type |-> supported_brokers[broker_name].type,
     connector |-> [cls |-> supported_brokers[broker_name].connector_class,
                    disconnect_called |-> FALSE],
     credentials |-> credentials,
     is_active |-> TRUE]

\* faulty variant: the new connection is added beside the old one
AssignConnection_Add(d, broker_name, conn) == d \cup {[key |-> broker_name, val |-> conn]}

\* self.connections[broker_name] = connection
AssignConnection(d, broker_name, conn) == DictSet(d, broker_name, conn)

----------------------------------------------------------------------------
\* The object heap.  An object lives while the connection map, a running
\* disconnect_broker or a running execute_signals refers to it.

Slots == 1..HeapSlots

FreeSlot ==
    [name |-> "", broker_type |-> "", connector |-> [cls |-> "", disconnect_called |-> FALSE],
     credentials |-> {}, is_active |-> FALSE]

Referenced(d, c, e) ==
    {item.val : item \in d}
    \cup (IF c.pc \in {"deactivate", "remove"} THEN {c.conn} ELSE {})
    \cup (IF e.pc = "iter" THEN {e.conn} ELSE {})

Collect(h, d, c, e) == [s \in Slots |-> IF s \in Referenced(d, c, e) THEN h[s] ELSE FreeSlot]

FreeSlots == {s \in Slots : heap[s] = FreeSlot}

NewSlot == CHOOSE s \in FreeSlots : \A t \in FreeSlots : s <= t

----------------------------------------------------------------------------
\* The two call frames

\* A control-plane frame: the call (op, name, credentials), what the SDK did in
\* it (sdk), whether the name was in the connection map when it began (had),
\* the connection it holds (conn), what it has done so far (events) and, at
\* pc = "done", the value it returns.
CtlCall(op, name, credentials, sdk, had, pc, conn, events, value) ==
    [op |-> op, name |-> name, credentials |-> credentials, sdk |-> sdk, had |-> had,
     pc |-> pc, conn |-> conn, events |-> events, value |-> value]

NoCall == CtlCall("none", "", {}, "", FALSE, "idle", 0, <<>>, FALSE)

ExeCall(pc, broker, conn, signals, idx, results, error, calls) ==
    [pc |-> pc, broker |-> broker, conn |-> conn, signals |-> signals, idx |-> idx,
     results |-> results, error |-> error, calls |-> calls]

NoBatch == ExeCall("idle", "", 0, <<>>, 0, {}, "", <<>>)

\* the call has returned to its caller
CtlReturn ==
    /\ ctl.pc = "done"
    /\ ctl' = NoCall
    /\ UNCHANGED <<connections, heap, trade_history, mt5_session, orders_sent, exe, probe, ml, ddns>>

ExeReturn ==
    /\ exe.pc = "done"
    /\ exe' = NoBatch
    /\ UNCHANGED <<connections, heap, trade_history, mt5_session, orders_sent, ctl, probe, ml, ddns>>

----------------------------------------------------------------------------
\* BrokerService.connect_broker (lines 331-367)

ConnectBroker(broker_name, credentials, sdk) ==
    /\ ctl.pc = "idle"
    /\ LET run == ConnectBrokerRun(broker_name, credentials, sdk) IN
       /\ ctl' = CtlCall("connect_broker", broker_name, credentials, sdk,
                         DictHas(connections, broker_name), "done", 0, run.events, run.value)
       /\ IF run.value
          THEN /\ FreeSlots # {}
               /\ connections' = AssignConnection(connections, broker_name, NewSlot)
               /\ heap' = Collect([heap EXCEPT ![NewSlot] = NewConnection(broker_name, credentials)],
                                  connections', ctl', exe)
          ELSE UNCHANGED <<heap, connections>>
       /\ mt5_session' =
            IF "connect" \in {run.events[i] : i \in DOMAIN run.events}
            THEN SessionAfterConnect(supported_brokers[broker_name].connector_class,
                                     broker_name, credentials, sdk, mt5_session)
            ELSE mt5_session
    /\ UNCHANGED <<trade_history, orders_sent, exe, probe, ml, ddns>>

----------------------------------------------------------------------------
\* BrokerService.disconnect_broker (lines 404-421), statement by statement

\* what the SDK does when a connector is torn down
SdkTeardownOutcomes == {"ok", "raises"}

\* <Connector>.disconnect() on a connector object: the SDK call (mt5.shutdown(),
\* client.close()); an SDK exception is caught inside.  The connector's
\* is_connected flag is written here and read nowhere: it is left out.
ConnectorDisconnect(connector, sdk) == [connector EXCEPT !.disconnect_called = TRUE]

\* mt5.shutdown() ends the process-wide terminal session
SessionAfterDisconnect(cls, sdk, session) ==
    IF cls = "MT5Connector" /\ sdk = "ok" THEN "none" ELSE session

\* faulty variant: a name without entry counts as disconnected (returns True)
DisconnectBegin_AbsentOk(broker_name, sdk) ==
    /\ ctl.pc = "idle"
    /\ IF DictHas(connections, broker_name)
       THEN LET c == DictGet(connections, broker_name) IN
            /\ heap' = [heap EXCEPT ![c].connector = ConnectorDisconnect(@, sdk)]
            /\ mt5_session' = SessionAfterDisconnect(heap[c].connector.cls, sdk, mt5_session)
            /\ ctl' = CtlCall("disconnect_broker", broker_name, {}, sdk, TRUE,
                              "deactivate", c, <<"teardown">>, FALSE)
       ELSE /\ ctl' = CtlCall("disconnect_broker", broker_name, {}, sdk, FALSE,
                              "done", 0, <<>>, TRUE)
            /\ UNCHANGED <<heap, mt5_session>>
    /\ UNCHANGED <<connections, trade_history, orders_sent, exe, probe, ml, ddns>>

\* lines 407-409: the membership test; connection = self.connections[name];
\* connection.connector.disconnect()
DisconnectBegin(broker_name, sdk) ==
    /\ ctl.pc = "idle"
    /\ IF DictHas(connections, broker_name)
       THEN LET c == DictGet(connections, broker_name) IN
            /\ heap' = [heap EXCEPT ![c].connector = ConnectorDisconnect(@, sdk)]
            /\ mt5_session' = SessionAfterDisconnect(heap[c].connector.cls, sdk, mt5_session)
            /\ ctl' = CtlCall("disconnect_broker", broker_name, {}, sdk, TRUE,
                              "deactivate", c, <<"teardown">>, FALSE)
       ELSE /\ ctl' = CtlCall("disconnect_broker", broker_name, {}, sdk, FALSE,
                              "done", 0, <<>>, FALSE)
            /\ UNCHANGED <<heap, mt5_session>>
    /\ UNCHANGED <<connections, trade_history, orders_sent, exe, probe, ml, ddns>>

\* faulty variant: the flag is left as it is
Deactivate_Skip(connection) == connection

\* lines 410-411: connection.is_active = False
Deactivate(connection) == [connection EXCEPT !.is_active = FALSE]

DisconnectDeactivate ==
    /\ ctl.pc = "deactivate"
    /\ heap' = [heap EXCEPT ![ctl.conn] = Deactivate(@)]
    /\ ctl' = [ctl EXCEPT !.pc = "remove", !.events = Append(@, "deactivate")]
    /\ UNCHANGED <<connections, trade_history, mt5_session, orders_sent, exe, probe, ml, ddns>>

\* line 413: del self.connections[broker_name]
RemoveConnection(d, broker_name) == DictDel(d, broker_name)

\* lines 413-415, and 419-421 when the del raises KeyError
DisconnectRemove ==
    /\ ctl.pc = "remove"
    /\ IF DictHas(connections, ctl.name)
       THEN /\ connections' = RemoveConnection(connections, ctl.name)
            /\ ctl' = [ctl EXCEPT !.pc = "done", !.conn = 0,
                                  !.events = Append(@, "remove"), !.value = TRUE]
       ELSE /\ connections' = connections
            /\ ctl' = [ctl EXCEPT !.pc = "done", !.conn = 0,
                                  !.events = Append(@, "raise"), !.value = FALSE]
    /\ heap' = Collect(heap, connections', ctl', exe)
    /\ UNCHANGED <<trade_history, mt5_session, orders_sent, exe, probe, ml, ddns>>

----------------------------------------------------------------------------
\* Connector.execute_trade

\* str.lower() on the signal types the model uses
Lower(t) ==
    IF t = "BUY" THEN "buy" ELSE IF t = "SELL" THEN "sell" ELSE IF t = "Hold" THEN "hold" ELSE t

\* what the SDK does during one execute_trade call:
\*   data_raises     the price/balance query raises
\*   no_data         mt5.symbol_info_tick returns None; ccxt ticker['last'] is 0
\*                   (buy) or the free balance is 0 (sell)
\*   order_raises    the order call raises
\*   order_none      mt5.order_send returns None
\*   order_rejected  mt5.order_send returns a retcode other than TRADE_RETCODE_DONE
\*   done            the order is accepted
SdkTradeOutcomes(cls) ==
    IF cls = "MT5Connector"
    THEN {"data_raises", "no_data", "order_raises", "order_none", "order_rejected", "done"}
    ELSE IF cls = "CCXTConnector"
    THEN {"data_raises", "no_data", "order_raises", "done"}
    ELSE {"unused"}

\* the market the SDK reports: prices, and the free balance of the exchange account
Market == [ask |-> 11, bid |-> 10, last |-> 10, free |-> 20]

Min(a, b) == IF a <= b THEN a ELSE b

Returned(result) == [raised |-> FALSE, result |-> result]

\* an exception leaves the code; the service's handler turns it into {'error': str(e)}
Raised == [raised |-> TRUE, result |-> [error |-> "exception"]]

Success(oid, quantity, price, symbol, type) ==
    [success |-> TRUE, order_id |-> oid, quantity |-> quantity, price |-> price,
     symbol |-> symbol, type |-> type]

Failure(error) == [success |-> FALSE, error |-> error]

\* MT5Connector.execute_trade, the body of its try block (lines 574-620).
\* volume = base_volume * strength with base_volume 0.1: in hundredths of a lot
\* that is the strength in tenths.
MT5TradeBody(symbol, signal, sdk, oid) ==
    LET signal_type == Lower(signal.type)
        volume == signal.strength
        price == IF signal_type = "buy" THEN Market.ask ELSE Market.bid
    IN  IF sdk = "data_raises" THEN Raised
        ELSE IF sdk = "no_data" THEN Returned(Failure("No price data"))
        ELSE IF sdk = "order_raises" THEN Raised
        ELSE IF sdk = "done"
        THEN Returned(Success(oid, volume, price, symbol, signal_type))
        ELSE Returned([success |-> FALSE,
                       error |-> IF sdk = "order_none" THEN "Order failed: Unknown error"
                                 ELSE "Order failed: rejected",
                       retcode |-> IF sdk = "order_none" THEN "None" ELSE "rejected"])

\* CCXTConnector.execute_trade, the body of its try block (lines 731-767).
\* amount_usd = base_amount * strength with base_amount 100: 10 * strength-in-tenths.
CCXTTradeBody(symbol, signal, sdk, oid) ==
    LET signal_type == Lower(signal.type)
        amount_usd == 10 * signal.strength
        order(amount) ==
            IF sdk = "done"
            THEN Returned(Success(oid, amount, Market.last, symbol, signal_type)
                          @@ [order_type |-> "market"])
            ELSE Raised
    IN  IF signal_type = "buy"
        THEN IF sdk \in {"data_raises", "no_data"} THEN Raised
             ELSE order(amount_usd \div Market.last)
        ELSE IF signal_type = "sell"
        THEN IF sdk = "data_raises" THEN Raised
             ELSE IF sdk = "no_data" THEN Returned(Failure("Insufficient balance"))
             ELSE order(Min(Market.free, (Market.free * signal.strength) \div 10))
        ELSE Returned(Failure("Unknown signal type"))

\* faulty variant: no except clause, the exception leaves execute_trade
CatchAndConvert_Reraise(outcome) == outcome

\* the except clause of execute_trade (lines 622-623, 769-770)
CatchAndConvert(outcome) ==
    IF outcome.raised THEN Returned(Failure("exception")) ELSE outcome

\* the placeholders' execute_trade (lines 843-844, 866-867, 889-890, 912-913)
PlaceholderTrade(cls) ==
    Returned(Failure(
        IF cls = "XTBConnector" THEN "XTB connector not implemented"
        ELSE IF cls = "IGConnector" THEN "IG connector not implemented"
        ELSE IF cls = "Plus500Connector" THEN "Plus500 connector not implemented"
        ELSE "SabioTrade connector not implemented"))

\* <Connector>.execute_trade(symbol, signal): [raised, result]
ExecuteTrade(cls, symbol, signal, sdk, oid) ==
    IF cls = "MT5Connector" THEN CatchAndConvert(MT5TradeBody(symbol, signal, sdk, oid))
    ELSE IF cls = "CCXTConnector" THEN CatchAndConvert(CCXTTradeBody(symbol, signal, sdk, oid))
    ELSE PlaceholderTrade(cls)

\* whether the SDK took an order during the call
OrderAccepted(cls, signal, sdk) ==
    /\ cls \in {"MT5Connector", "CCXTConnector"}
    /\ sdk = "done"
    /\ cls = "CCXTConnector" => Lower(signal.type) \in {"buy", "sell"}

----------------------------------------------------------------------------
\* BrokerService.execute_signals (lines 423-462), one symbol at a time

\* a signal of the batch ('type', 'strength'), with the symbol that keys it
Signal(symbol, type, strength) == [symbol |-> symbol, type |-> type, strength |-> strength]

\* the signals dicts the loop hands over (never an empty one), in iteration
\* order: no symbol twice
SignalBatches ==
    { <<Signal("EURUSD", "buy", 5)>>,
      <<Signal("EURUSD", "buy", 5), Signal("BTC/USDT", "sell", 10)>> }

\* an execute_signals call whose guard or lookup ended it: the error payload
ErrorPayload(broker_name, signals, error) ==
    ExeCall("done", broker_name, 0, signals, 0, {}, error, <<>>)

\* lines 425-429: results = {}; the membership test
ExecuteBegin(broker_name, signals) ==
    /\ exe.pc = "idle"
    /\ Len(trade_history) + Len(signals) <= MaxTrades
    /\ exe' = IF ~DictHas(connections, broker_name)
              THEN ErrorPayload(broker_name, signals, "No connection")
              ELSE ExeCall("fetch", broker_name, 0, signals, 0, {}, "", <<>>)
    /\ UNCHANGED <<connections, heap, trade_history, mt5_session, orders_sent, ctl, probe, ml, ddns>>

\* faulty variant: the is_active test is left out
ConnectionUsable_Always(connection) == TRUE

\* the connection's flag allows the batch (line 432)
ConnectionUsable(connection) == connection.is_active

\* lines 431-433: connection = self.connections[broker_name], a KeyError going to
\* the handler of lines 460-462; the is_active test; then the first iteration is due
ExecuteFetch ==
    /\ exe.pc = "fetch"
    /\ exe' =
        IF ~DictHas(connections, exe.broker)
        THEN ErrorPayload(exe.broker, exe.signals, "KeyError")
        ELSE LET c == DictGet(connections, exe.broker) IN
             IF ~ConnectionUsable(heap[c])
             THEN ErrorPayload(exe.broker, exe.signals, "Connection is not active")
             ELSE ExeCall(IF exe.signals = <<>> THEN "done" ELSE "iter", exe.broker,
                          IF exe.signals = <<>> THEN 0 ELSE c, exe.signals, 0, {}, "", <<>>)
    /\ UNCHANGED <<connections, heap, trade_history, mt5_session, orders_sent, ctl, probe, ml, ddns>>

\* dict.get(key, default)
Get(dict, key, default) == IF key \in DOMAIN dict THEN dict[key] ELSE default

\* TradeExecution(...) of lines 442-451; an absent order_id (None) is 0.
\* executed_at (the clock) and metadata (the result as JSON text) are left out.
TradeExecution(broker_name, signal, result) ==
    [broker_name |-> broker_name, symbol |-> signal.symbol, signal_type |-> signal.type,
     quantity |-> Get(result, "quantity", 0), price |-> Get(result, "price", 0),
     order_id |-> Get(result, "order_id", 0)]

\* faulty variant: a record for every symbol, whatever its result
RecordTrade_Always(history, broker_name, signal, outcome) ==
    Append(history, TradeExecution(broker_name, signal, outcome.result))

\* lines 441-452: the trade history after one symbol's result
RecordTrade(history, broker_name, signal, outcome) ==
    IF ~outcome.raised /\ Get(outcome.result, "success", FALSE)
    THEN Append(history, TradeExecution(broker_name, signal, outcome.result))
    ELSE history

\* lines 438 and 456: results[symbol] = result, or the error entry when the call raised
StoreResult(results, symbol, outcome) == DictSet(results, symbol, outcome.result)

\* faulty variant: the first failing symbol ends the batch
BatchGoesOn_AbortOnFailure(outcome, left) ==
    left > 0 /\ ~outcome.raised /\ Get(outcome.result, "success", FALSE)

\* lines 435-458: whether the for loop goes on to another symbol after this
\* one's outcome, `left` symbols being left (no outcome ends it early)
BatchGoesOn(outcome, left) == left > 0

\* lines 436-456 for the next symbol of the batch; line 458 after the last one
ExecuteStep(sdk) ==
    /\ exe.pc = "iter"
    /\ LET signal == exe.signals[exe.idx + 1]
           connector == heap[exe.conn].connector
           outcome == ExecuteTrade(connector.cls, signal.symbol, signal, sdk, orders_sent + 1)
           goes_on == BatchGoesOn(outcome, Len(exe.signals) - (exe.idx + 1))
       IN  /\ sdk \in SdkTradeOutcomes(connector.cls)
           /\ orders_sent' = IF OrderAccepted(connector.cls, signal, sdk)
                             THEN orders_sent + 1 ELSE orders_sent
           /\ trade_history' = RecordTrade(trade_history, exe.broker, signal, outcome)
           /\ exe' = [exe EXCEPT
                        !.idx = @ + 1,
                        !.results = StoreResult(@, signal.symbol, outcome),
                        !.calls = Append(@, [symbol |-> signal.symbol, sdk |-> sdk,
                                             after_teardown |-> connector.disconnect_called]),
                        !.pc = IF goes_on THEN "iter" ELSE "done",
                        !.conn = IF goes_on THEN @ ELSE 0]
    /\ heap' = Collect(heap, connections, ctl, exe')
    /\ UNCHANGED <<connections, mt5_session, ctl, probe, ml, ddns>>

----------------------------------------------------------------------------
\* Direct calls of the connector classes

SignalTypes == {"buy", "sell", "BUY", "Hold"}

Strengths == {0, 5, 10}

\* <Connector>(broker_info, credentials).connect()
ProbeConnect(cls, credentials, sdk) ==
    /\ probe' = [op |-> "connect", cls |-> cls, credentials |-> credentials, sdk |-> sdk,
                 value |-> ConnectorConnect(cls, credentials, sdk)]
    /\ UNCHANGED <<connections, heap, trade_history, mt5_session, orders_sent, ctl, exe,
                   ml, ddns>>

\* <Connector>(broker_info, credentials).execute_trade(symbol, signal)
ProbeExecuteTrade(cls, symbol, signal, sdk) ==
    /\ probe' = [op |-> "execute_trade", cls |-> cls, signal |-> signal, sdk |-> sdk,
                 outcome |-> ExecuteTrade(cls, symbol, signal, sdk, orders_sent + 1)]
    /\ UNCHANGED <<connections, heap, trade_history, mt5_session, orders_sent, ctl, exe,
                   ml, ddns>>

----------------------------------------------------------------------------
\* The trading loop and its two handlers: src/backend/app.py

\* TradingSession rows the database gets at most
MaxSessions == 2

\* start_trading requests handled at once, each in a thread of its own
StartHandlers == 2

SessionIds == 1..MaxSessions

HandlerIds == 1..StartHandlers

\* a strategy_config: the keys it has, and the values the loop reads from it
StrategyConfig(fields, use_ml, use_lean, max_iterations) ==
    [fields |-> fields, use_ml |-> use_ml, use_lean |-> use_lean,
     max_iterations |-> max_iterations, brokers |-> <<"XM">>]

RequiredConfigFields == {"name", "symbols", "strategy_type"}

\* the configurations a start_trading request may carry: one without the
\* required fields; the ML source alone, no limit of iterations; the sources
\* of the defaults of lines 324 and 329 (no ML, Lean) with max_iterations = 1
StrategyConfigs ==
    { StrategyConfig({"name"}, TRUE, FALSE, 0),
      StrategyConfig(RequiredConfigFields, TRUE, FALSE, 0),
      StrategyConfig(RequiredConfigFields, FALSE, TRUE, 1) }

NoConfig == StrategyConfig({}, FALSE, FALSE, 0)

\* validate_trading_config (lines 292-295)
validate_trading_config(config) ==
    \A field \in RequiredConfigFields : field \in config.fields

\* AppState.__init__ (lines 81-93); system_status['brokers'] is `brokers`
AppState(trading_active, trading_sessions, current_signals, brokers) ==
    [trading_active |-> trading_active, trading_sessions |-> trading_sessions,
     current_signals |-> current_signals, brokers |-> brokers]

\* a TradingSession row: status "none" while the row does not exist
TradingSession(status, end_time) == [status |-> status, end_time |-> end_time]

\* the id the database gives the next TradingSession
NextSessionId == CHOOSE id \in SessionIds :
                    /\ db[id].status = "none"
                    /\ \A other \in SessionIds : db[other].status = "none" => id <= other

\* the frame of a handle_start_trading call: position, strategy_config, the
\* session it created (0: none), and what it answered
StartCall(pc, config, session, reply) ==
    [pc |-> pc, config |-> config, session |-> session, reply |-> reply]

NoStart == StartCall("idle", NoConfig, 0, "")

\* the frame of a handle_stop_trading call
StopCall(pc) == [pc |-> pc]

\* the frame of a run_trading_loop thread.  all_signals, filtered_signals are
\* the locals of the iteration; handed, saved and sent are what the iteration
\* gave to execute_signals, save_signals_to_db and the signals_update
\* broadcast (<<>>: nothing yet); raised lists the statements of the
\* iteration that have raised an exception, in order.
LoopFrame(pc, config, iteration_count, all_signals, filtered_signals, handed, saved, sent, raised) ==
    [pc |-> pc, config |-> config, iteration_count |-> iteration_count,
     all_signals |-> all_signals, filtered_signals |-> filtered_signals,
     handed |-> handed, saved |-> saved, sent |-> sent, raised |-> raised]

NoLoop == LoopFrame("none", NoConfig, 0, <<>>, <<>>, <<>>, <<>>, <<>>, <<>>)

\* lines 197-207: the test of trading_active, then the validation of the config
StartCheck(h, config) ==
    /\ start[h].pc = "idle"
    /\ Cardinality({id \in SessionIds : db[id].status # "none"})
         + Cardinality({k \in HandlerIds : start[k].pc = "create"}) < MaxSessions
    /\ start' = [start EXCEPT ![h] =
                    IF app_state.trading_active
                    THEN StartCall("done", NoConfig, 0, "Trading is already active")
                    ELSE IF ~validate_trading_config(config)
                    THEN StartCall("done", NoConfig, 0, "Invalid trading configuration")
                    ELSE StartCall("create", config, 0, "")]
    /\ UNCHANGED <<app_state, db, stop, loop>>

\* lines 210-219: the TradingSession row, its commit, and its entry in
\* app_state.trading_sessions; a failing commit goes to the handler of 240-242
StartCreate(h, committed) ==
    /\ start[h].pc = "create"
    /\ IF committed
       THEN /\ db' = [db EXCEPT ![NextSessionId] = TradingSession("active", FALSE)]
            /\ app_state' = [app_state EXCEPT !.trading_sessions = @ \cup {NextSessionId}]
            /\ start' = [start EXCEPT ![h].pc = "activate", ![h].session = NextSessionId]
       ELSE /\ start' = [start EXCEPT ![h] =
                            StartCall("done", NoConfig, 0, "Failed to start trading")]
            /\ UNCHANGED <<app_state, db>>
    /\ UNCHANGED <<stop, loop>>

\* lines 220-238: app_state.trading_active = True, the loop thread is started,
\* the clients are told
StartActivate(h) ==
    /\ start[h].pc = "activate"
    /\ app_state' = [app_state EXCEPT !.trading_active = TRUE]
    /\ loop' = [loop EXCEPT ![start[h].session] =
                   LoopFrame("top", start[h].config, 0, <<>>, <<>>, <<>>, <<>>, <<>>, <<>>)]
    /\ start' = [start EXCEPT ![h] =
                    StartCall("done", NoConfig, start[h].session, "Trading started successfully")]
    /\ UNCHANGED <<db, stop>>

\* the handler returns
StartReturn(h) ==
    /\ start[h].pc = "done"
    /\ start' = [start EXCEPT ![h] = NoStart]
    /\ UNCHANGED <<app_state, db, stop, loop>>

\* line 248: app_state.trading_active = False
StopBegin ==
    /\ stop.pc = "idle"
    /\ app_state' = [app_state EXCEPT !.trading_active = FALSE]
    /\ stop' = StopCall("finalize")
    /\ UNCHANGED <<db, start, loop>>

\* lines 251-255: every session of app_state.trading_sessions that is active
\* gets status 'stopped' and its end_time
StopFinalize ==
    /\ stop.pc = "finalize"
    /\ db' = [id \in SessionIds |->
                IF id \in app_state.trading_sessions /\ db[id].status = "active"
                THEN TradingSession("stopped", TRUE)
                ELSE db[id]]
    /\ stop' = StopCall("clear")
    /\ UNCHANGED <<app_state, start, loop>>

\* lines 257-266: app_state.trading_sessions.clear(), the clients are told,
\* the handler returns
StopClear ==
    /\ stop.pc = "clear"
    /\ app_state' = [app_state EXCEPT !.trading_sessions = {}]
    /\ stop' = StopCall("idle")
    /\ UNCHANGED <<db, start, loop>>

Catches_AllByTheIteration(kind) == "iteration"

\* the except clause that catches an exception raised by a statement of the
\* iteration: the one of the iteration (line 380), or one nearer to the
\* statement: the try around execute_signals (357-359) with the handlers
\* inside the broker service, and the try of save_signals_to_db (428-430)
Catches(kind) ==
    IF kind \in {"broker", "persist"} THEN "inner" ELSE "iteration"

\* where the loop is after the statement raised: in the except block of the
\* iteration, or at the statement that follows
Landing(kind, following) ==
    IF Catches(kind) = "iteration" THEN "handler" ELSE following

\* ml_service.generate_signals(market_data) as the loop sees it: a dict of
\* signals by symbol, here in iteration order; it raises nothing (lines 495-497
\* of ml_service.py)
MlSignals == { <<Signal("EURUSD", "buy", 5), Signal("BTC/USDT", "sell", 10)>> }

\* what the risk filter may let through
FilterPicks == {"none", "first", "all"}

\* risk_service.filter_signals(all_signals, market_data, strategy_config): the
\* signals it lets through
FilterOutput(all_signals, pick) ==
    IF pick = "all" THEN all_signals
    ELSE IF pick = "first" /\ all_signals # <<>> THEN <<all_signals[1]>>
    ELSE <<>>

\* iteration_count += 1; past max_iterations + 1 the count decides nothing and
\* is kept as it is
Count(n, max) == IF n <= max THEN n + 1 ELSE n

WhileCondition_True(state) == TRUE

\* line 306: the condition of `while app_state.trading_active:`
WhileCondition(state) == state.trading_active

\* lines 306-313: the test of trading_active at the top of the loop, the count
\* and the max_iterations test
LoopTop(id) ==
    /\ loop[id].pc = "top"
    /\ LET max == loop[id].config.max_iterations
           count == Count(loop[id].iteration_count, max)
       IN  loop' = [loop EXCEPT ![id] =
              IF ~WhileCondition(app_state)
              THEN LoopFrame("finally", @.config, @.iteration_count,
                             <<>>, <<>>, <<>>, <<>>, <<>>, <<>>)
              ELSE IF max > 0 /\ count > max
              THEN LoopFrame("finally", @.config, count, <<>>, <<>>, <<>>, <<>>, <<>>, <<>>)
              ELSE LoopFrame("gather", @.config, count, <<>>, <<>>, <<>>, <<>>, <<>>, <<>>)]
    /\ UNCHANGED <<app_state, db, start, stop>>

\* lines 315-331: market data, then the signals of the ML source and of the
\* Lean source.  lean_service.run_algorithm returns an AlgorithmResult
\* (lean_service.py:241), which dict.update does not take: line 331 raises.
LoopGather(id, market_ok, ml_signals) ==
    /\ loop[id].pc = "gather"
    /\ ml_signals \in (IF loop[id].config.use_ml THEN MlSignals ELSE { <<>> })
    /\ loop' = [loop EXCEPT ![id] =
          IF ~market_ok
          THEN [@ EXCEPT !.pc = Landing("market", "filter"),
                         !.raised = Append(@, "market")]
          ELSE IF @.config.use_lean
          THEN [@ EXCEPT !.pc = Landing("signals", "filter"),
                         !.raised = Append(@, "signals")]
          ELSE [@ EXCEPT !.pc = "filter", !.all_signals = ml_signals]]
    /\ UNCHANGED <<app_state, db, start, stop>>

\* lines 334-343: the risk filter, app_state.current_signals, and the test
\* `if filtered_signals`
LoopFilter(id, filter_ok, output) ==
    /\ loop[id].pc = "filter"
    /\ IF ~filter_ok
       THEN /\ loop' = [loop EXCEPT ![id].pc = Landing("filter", "execute"),
                                     ![id].raised = Append(@, "filter")]
            /\ UNCHANGED app_state
       ELSE LET filtered_signals == output IN
            /\ loop' = [loop EXCEPT ![id].filtered_signals = filtered_signals,
                                     ![id].pc = IF filtered_signals # <<>>
                                                THEN "execute" ELSE "wait"]
            /\ app_state' = [app_state EXCEPT !.current_signals = filtered_signals]
    /\ UNCHANGED <<db, start, stop>>

\* broker_service.execute_signals(broker_name, signals) as one call: the
\* trade history and the count of accepted orders after the batch, every
\* symbol meeting the SDK outcome `sdk`
RECURSIVE RunBatch(_, _, _, _, _, _)
RunBatch(cls, broker_name, signals, sdk, history, sent) ==
    IF signals = <<>>
    THEN [history |-> history, sent |-> sent]
    ELSE LET signal == Head(signals)
             outcome == ExecuteTrade(cls, signal.symbol, signal, sdk, sent + 1)
         IN  RunBatch(cls, broker_name, Tail(signals), sdk,
                      RecordTrade(history, broker_name, signal, outcome),
                      IF OrderAccepted(cls, signal, sdk) THEN sent + 1 ELSE sent)

\* the guards of execute_signals let the batch through
BatchRuns(broker_name) ==
    /\ DictHas(connections, broker_name)
    /\ ConnectionUsable(heap[DictGet(connections, broker_name)])

\* the SDK outcomes a batch of the loop meets: an order is accepted only while
\* the trade history has room for the batch
BatchSdkOutcomes(signals) ==
    IF Len(trade_history) + Len(signals) <= MaxTrades
    THEN {"done", "no_data", "order_raises"}
    ELSE {"no_data", "order_raises"}

\* the SDK outcomes that are exceptions inside connector.execute_trade
RaisingSdkOutcomes == {"order_raises", "data_raises"}

HandedSignals_Unfiltered(frame) == frame.all_signals

\* the signals the loop hands to the brokers, to the database and to the clients
HandedSignals(frame) == frame.filtered_signals

\* lines 344-359: execute_signals for every broker of the configuration that
\* system_status knows
LoopExecuteBrokers(id, sdk) ==
    /\ loop[id].pc = "execute"
    /\ LET signals == HandedSignals(loop[id])
           broker_name == loop[id].config.brokers[1]
           known == DictHas(app_state.brokers, broker_name)
           after == IF known /\ BatchRuns(broker_name)
                    THEN RunBatch(heap[DictGet(connections, broker_name)].connector.cls,
                                  broker_name, signals, sdk, trade_history, orders_sent)
                    ELSE [history |-> trade_history, sent |-> orders_sent]
       IN  /\ sdk \in BatchSdkOutcomes(signals)
           /\ trade_history' = after.history
           /\ orders_sent' = after.sent
           /\ loop' = [loop EXCEPT ![id].pc = IF known /\ BatchRuns(broker_name)
                                                    /\ sdk \in RaisingSdkOutcomes
                                                 THEN Landing("broker", "persist")
                                                 ELSE "persist",
                                    ![id].raised = IF known /\ BatchRuns(broker_name)
                                                       /\ sdk \in RaisingSdkOutcomes
                                                    THEN Append(@, "broker") ELSE @,
                                    ![id].handed = IF known THEN <<signals>> ELSE <<>>]
    /\ UNCHANGED <<connections, heap, mt5_session, ctl, exe, probe, ml, ddns>>
    /\ UNCHANGED <<app_state, db, start, stop>>

\* line 362: save_signals_to_db, which catches what the database raises
\* (lines 428-430)
LoopPersist(id, db_ok) ==
    /\ loop[id].pc = "persist"
    /\ loop' = [loop EXCEPT ![id] =
          IF db_ok
          THEN [@ EXCEPT !.pc = "broadcast", !.saved = <<HandedSignals(loop[id])>>]
          ELSE [@ EXCEPT !.pc = Landing("persist", "broadcast"),
                         !.raised = Append(@, "persist")]]
    /\ UNCHANGED <<app_state, db, start, stop>>

\* lines 365-372: the signals_update broadcast
LoopBroadcast(id, emit_ok) ==
    /\ loop[id].pc = "broadcast"
    /\ loop' = [loop EXCEPT ![id] =
          IF emit_ok
          THEN [@ EXCEPT !.pc = "wait", !.sent = <<HandedSignals(loop[id])>>]
          ELSE [@ EXCEPT !.pc = Landing("broadcast", "wait"),
                         !.raised = Append(@, "broadcast")]]
    /\ UNCHANGED <<app_state, db, start, stop>>

\* lines 375-378: last_update, then the wait of `interval` seconds ends
LoopWait(id) ==
    /\ loop[id].pc = "wait"
    /\ loop' = [loop EXCEPT ![id].pc = "top"]
    /\ UNCHANGED <<app_state, db, start, stop>>

\* where the loop goes after the handler of an iteration's exception
AfterHandler(emit_ok) == IF emit_ok THEN "cooldown" ELSE "finally"

\* lines 380-390: the trading_error broadcast; when it raises, the exception
\* is one of the outer try (lines 395-397)
LoopHandler(id, emit_ok) ==
    /\ loop[id].pc = "handler"
    /\ loop' = [loop EXCEPT ![id].pc = AfterHandler(emit_ok),
                             ![id].raised = IF emit_ok THEN @ ELSE Append(@, "handler")]
    /\ UNCHANGED <<app_state, db, start, stop>>

\* line 393: the wait of 5 seconds ends
LoopCooldown(id) ==
    /\ loop[id].pc = "cooldown"
    /\ loop' = [loop EXCEPT ![id].pc = "top"]
    /\ UNCHANGED <<app_state, db, start, stop>>

\* lines 399-407: the session, when app_state.trading_sessions still has it,
\* gets status 'completed' and its end_time; the thread ends
LoopFinally(id) ==
    /\ loop[id].pc = "finally"
    /\ db' = IF id \in app_state.trading_sessions
             THEN [db EXCEPT ![id] = TradingSession("completed", TRUE)]
             ELSE db
    /\ loop' = [loop EXCEPT ![id].pc = "ended"]
    /\ UNCHANGED <<app_state, start, stop>>

----------------------------------------------------------------------------
\* The ML signal pipeline: src/backend/services/ml_service.py

\* Python floats are binary floating-point numbers: every operation gives the
\* representable number nearest to the exact result, a tie going to the even
\* significand.  The significand has MantissaBits bits (53 in CPython).
MantissaBits == 11

\* the models that give a signal for one symbol
MaxModels == 3

RECURSIVE Pow2(_)
Pow2(k) == IF k = 0 THEN 1 ELSE 2 * Pow2(k - 1)

\* the float m * 2^e, with m = 0 or 2^(MantissaBits-1) <= m < 2^MantissaBits
Float(m, e) == [m |-> m, e |-> e]

Zero == Float(0, 0)

\* (n / d) * 2^e with n / d brought into [2^(MantissaBits-1), 2^MantissaBits)
RECURSIVE Scaled(_, _, _)
Scaled(n, d, e) ==
    IF n >= d * Pow2(MantissaBits) THEN Scaled(n, 2 * d, e + 1)
    ELSE IF n < d * Pow2(MantissaBits - 1) THEN Scaled(2 * n, d, e - 1)
    ELSE [n |-> n, d |-> d, e |-> e]

\* the float nearest to (n / d) * 2^e, ties to even
Nearest(n, d, e) ==
    IF n = 0 THEN Zero
    ELSE LET s == Scaled(n, d, e)
             q == s.n \div s.d
             r == s.n % s.d
             up == 2 * r > s.d \/ (2 * r = s.d /\ q % 2 = 1)
             m == IF up THEN q + 1 ELSE q
         IN  IF m = Pow2(MantissaBits)
             THEN Float(Pow2(MantissaBits - 1), s.e + 1)
             ELSE Float(m, s.e)

\* the float of a decimal literal n/d, and of an int
Decimal(n, d) == Nearest(n, d, 0)

FromInt(k) == Nearest(k, 1, 0)

\* a * b
FloatMul(a, b) == Nearest(a.m * b.m, 1, a.e + b.e)

\* a + b
FloatAdd(a, b) ==
    IF a.m = 0 THEN b
    ELSE IF b.m = 0 THEN a
    ELSE LET lo == Min(a.e, b.e)
         IN  Nearest(a.m * Pow2(a.e - lo) + b.m * Pow2(b.e - lo), 1, lo)

\* a / k for an int k > 0
FloatDiv(a, k) == Nearest(a.m, k, a.e)

\* a > b
FloatGt(a, b) ==
    /\ a.m # 0
    /\ \/ b.m = 0
       \/ a.e > b.e
       \/ a.e = b.e /\ a.m > b.m

\* a signal of one model as _make_prediction returns it: the fields the
\* aggregator reads
RawSignal(type, strength, confidence) ==
    [type |-> type, strength |-> strength, confidence |-> confidence]

\* the return value None
None == [type |-> "None"]

\* the dict _aggregate_signals returns: the fields that depend on the input
AggregatedSignal(type, strength, confidence, models_count, buy_votes, sell_votes) ==
    [type |-> type, strength |-> strength, confidence |-> confidence,
     models_count |-> models_count, buy_votes |-> buy_votes, sell_votes |-> sell_votes]

Weighted_StrengthOnly(signal) == signal.strength

\* line 842: weighted_strength = strength * confidence
Weighted(signal) == FloatMul(signal.strength, signal.confidence)

\* lines 836-847: the list of weighted strengths of the signals of one type, in
\* the order of the dict
RECURSIVE Votes(_, _)
Votes(signals, type) ==
    IF signals = <<>> THEN <<>>
    ELSE LET rest == Votes(Tail(signals), type)
         IN  IF Head(signals).type = type THEN <<Weighted(Head(signals))>> \o rest ELSE rest

\* the sum of a list of floats, added one after the other to `acc`
RECURSIVE SumFrom(_, _)
SumFrom(acc, values) ==
    IF values = <<>> THEN acc ELSE SumFrom(FloatAdd(acc, Head(values)), Tail(values))

\* np.mean(votes) if votes else 0
MeanOrZero(votes) ==
    IF votes = <<>> THEN Zero ELSE FloatDiv(SumFrom(Zero, votes), Len(votes))

\* line 849: total_confidence += confidence, over the dict in its order
RECURSIVE TotalConfidence(_, _)
TotalConfidence(acc, signals) ==
    IF signals = <<>> THEN acc
    ELSE TotalConfidence(FloatAdd(acc, Head(signals).confidence), Tail(signals))

ConsensusThreshold_Half(strength) == FloatGt(strength, Decimal(5, 10))

\* lines 857, 860: `> 0.4`
ConsensusThreshold(strength) == FloatGt(strength, Decimal(4, 10))

\* MLService._aggregate_signals(signals), lines 825-880; the dict `signals`
\* is the sequence of its values in insertion order
aggregate_signals(signals) ==
    IF signals = <<>> THEN None
    ELSE LET buy_votes == Votes(signals, "buy")
             sell_votes == Votes(signals, "sell")
             model_count == Len(signals)
             total_confidence == TotalConfidence(FromInt(0), signals)
             buy_strength == MeanOrZero(buy_votes)
             sell_strength == MeanOrZero(sell_votes)
             avg_confidence == FloatDiv(total_confidence, model_count)
         IN  IF FloatGt(buy_strength, sell_strength) /\ ConsensusThreshold(buy_strength)
             THEN AggregatedSignal("buy", buy_strength, avg_confidence, model_count,
                                   Len(buy_votes), Len(sell_votes))
             ELSE IF FloatGt(sell_strength, buy_strength) /\ ConsensusThreshold(sell_strength)
             THEN AggregatedSignal("sell", sell_strength, avg_confidence, model_count,
                                   Len(buy_votes), Len(sell_votes))
             ELSE None

\* a - b for floats a >= b >= 0
FloatSub(a, b) ==
    IF b.m = 0 THEN a
    ELSE LET lo == Min(a.e, b.e)
         IN  Nearest(a.m * Pow2(a.e - lo) - b.m * Pow2(b.e - lo), 1, lo)

\* min(a, b)
FloatMin(a, b) == IF FloatGt(a, b) THEN b ELSE a

\* what a model gives back: a str, a number of a Python or numpy type with its
\* sign and absolute value, or an array of floats
Str(text) == [kind |-> "str", text |-> text]

Num(kind, neg, abs) == [kind |-> kind, neg |-> neg, abs |-> abs]

Arr(values) == [kind |-> "array", values |-> values]

\* isinstance(prediction, str): str and numpy.str_
IsStr(prediction) == prediction.kind = "str"

\* isinstance(prediction, (int, float)): int, float and numpy.float64, which
\* derives from float; numpy.int64 derives from neither
IsNumber(prediction) == prediction.kind \in {"int", "float", "float64"}

\* prediction > x and prediction < -x for a number and a float x > 0
Above(prediction, x) == ~prediction.neg /\ FloatGt(prediction.abs, x)

Below(prediction, x) == prediction.neg /\ FloatGt(prediction.abs, x)

BuyLabels == {"buy", "long", "1", "up", "bullish"}

SellLabels == {"sell", "short", "0", "-1", "down", "bearish"}

\* MLService._map_prediction_to_signal(prediction), lines 809-823
map_prediction_to_signal(prediction) ==
    IF IsStr(prediction)
    THEN LET prediction_lower == Lower(prediction.text)
         IN  IF prediction_lower \in BuyLabels THEN "buy"
             ELSE IF prediction_lower \in SellLabels THEN "sell"
             ELSE "None"
    ELSE IF IsNumber(prediction)
    THEN IF Above(prediction, Decimal(5, 10)) THEN "buy"
         ELSE IF Below(prediction, Decimal(5, 10)) THEN "sell"
         ELSE "None"
    ELSE "None"

\* a model object: the attributes _make_prediction looks for, and what its
\* methods do when called; `tensorflow` is TENSORFLOW_AVAILABLE and
\* 'tensorflow' in str(type(model)).  proba is the class of the highest
\* probability with that probability.
Model(has_predict_proba, proba, has_predict, predict, tensorflow) ==
    [has_predict_proba |-> has_predict_proba, proba |-> proba,
     has_predict |-> has_predict, predict |-> predict, tensorflow |-> tensorflow]

\* the dict _make_prediction returns: type, strength, confidence
PredictionSignal(type, strength, confidence) ==
    [type |-> type, strength |-> strength, confidence |-> confidence]

\* control leaves a branch of _make_prediction without a return
FallThrough == [type |-> "fall through"]

\* the branch as it would be with `else: return None`
BelowThreshold_ReturnNone(fallback) == None

\* lines 707-714: `if signal_type and confidence > 0.6:` has no else; control
\* goes on after the try statement, as it does from `except Exception: pass`
BelowThreshold(fallback) == fallback

\* lines 691-717: the predict_proba branch
ProbaBranch(model) ==
    IF ~model.has_predict_proba THEN FallThrough
    ELSE IF model.proba.raised THEN FallThrough
    ELSE LET predicted_class == model.proba.result.class
             confidence == model.proba.result.confidence
             signal_type == map_prediction_to_signal(predicted_class)
         IN  IF signal_type # "None" /\ FloatGt(confidence, Decimal(6, 10))
             THEN PredictionSignal(signal_type, confidence, confidence)
             ELSE BelowThreshold(FallThrough)

DeadZone_Half == Decimal(5, 10)

\* lines 726, 729: `> 0.1` and `< -0.1`
DeadZone == Decimal(1, 10)

\* lines 719-753: the predict branch; an exception of model.predict goes to
\* the handler of line 805
PredictBranch(model) ==
    IF ~model.has_predict THEN FallThrough
    ELSE IF model.predict.raised THEN None
    ELSE LET prediction == model.predict.result
         IN  IF IsNumber(prediction)
             THEN IF Above(prediction, DeadZone)
                  THEN LET strength == FloatMin(prediction.abs, FromInt(1))
                       IN  PredictionSignal("buy", strength, FloatMul(strength, Decimal(8, 10)))
                  ELSE IF Below(prediction, DeadZone)
                  THEN LET strength == FloatMin(prediction.abs, FromInt(1))
                       IN  PredictionSignal("sell", strength, FloatMul(strength, Decimal(8, 10)))
                  ELSE None
             ELSE LET signal_type == map_prediction_to_signal(prediction)
                  IN  IF signal_type # "None"
                      THEN PredictionSignal(signal_type, Decimal(7, 10), Decimal(7, 10))
                      ELSE FallThrough

\* np.argmax: the first position of the largest value
ArgMax(values) ==
    CHOOSE i \in 1..Len(values) :
        /\ \A j \in 1..Len(values) : ~FloatGt(values[j], values[i])
        /\ \A j \in 1..(i - 1) : FloatGt(values[i], values[j])

\* lines 755-801: the TensorFlow/Keras branch, for outputs that are not
\* negative
TensorFlowBranch(model) ==
    IF ~model.tensorflow THEN FallThrough
    ELSE IF model.predict.raised \/ model.predict.result.kind # "array" THEN None
    ELSE LET prediction == model.predict.result.values
         IN  IF Len(prediction) = 1
             THEN LET value == prediction[1]
                  IN  IF FloatGt(value, Decimal(6, 10))
                      THEN LET strength == FloatMin(value, FromInt(1))
                           IN  PredictionSignal("buy", strength, strength)
                      ELSE IF FloatGt(Decimal(4, 10), value)
                      THEN LET strength == FloatMin(FloatSub(FromInt(1), value), FromInt(1))
                           IN  PredictionSignal("sell", strength, strength)
                      ELSE None
             ELSE IF Len(prediction) > 1
             THEN LET max_idx == ArgMax(prediction)
                      confidence == prediction[max_idx]
                  IN  IF max_idx = 2 THEN None
                      ELSE IF FloatGt(confidence, Decimal(6, 10))
                      THEN PredictionSignal(IF max_idx = 1 THEN "sell" ELSE "buy",
                                            confidence, confidence)
                      ELSE FallThrough
             ELSE FallThrough

\* MLService._make_prediction(model, model_name, features), lines 685-807:
\* the branches in their order, the first return wins, None at the end
make_prediction(model) ==
    LET proba == ProbaBranch(model)
        predict == PredictBranch(model)
        tensorflow == TensorFlowBranch(model)
    IN  IF proba # FallThrough THEN proba
        ELSE IF predict # FallThrough THEN predict
        ELSE IF tensorflow # FallThrough THEN tensorflow
        ELSE None

\* class labels and categorical predictions
Labels ==
    { Str("buy"), Str("SELL"), Str("hold"), Str("1"),
      Num("int64", FALSE, FromInt(1)), Num("int", FALSE, FromInt(1)),
      Num("float64", FALSE, FromInt(1)), Num("float64", TRUE, FromInt(1)) }

\* the highest class probability of predict_proba
Probabilities == { Decimal(5, 10), Decimal(6, 10), Decimal(7, 10), Decimal(9, 10) }

\* what predict_proba does: it raises, or gives a class and its probability
ProbaOutcomes ==
    { Raised } \cup
    { Returned([class |-> label, confidence |-> p]) : label \in Labels, p \in Probabilities }

\* regression outputs
RegressionValues ==
    { Num("float64", neg, Decimal(v, 100)) :
          neg \in BOOLEAN, v \in {0, 5, 10, 15, 60, 100, 150} }
    \cup { Num("float", FALSE, Decimal(15, 100)), Num("int", TRUE, FromInt(1)) }

\* outputs of a neural network: of a sigmoid or softmax layer, and of a
\* linear layer, which is not confined to [0, 1]
NetworkOutputs ==
    { Arr(<<Decimal(7, 10)>>), Arr(<<Decimal(3, 10)>>), Arr(<<Decimal(5, 10)>>),
      Arr(<<Decimal(1, 10), Decimal(2, 10), Decimal(7, 10)>>),
      Arr(<<Decimal(7, 10), Decimal(2, 10), Decimal(1, 10)>>),
      Arr(<<Decimal(2, 10), Decimal(7, 10), Decimal(1, 10)>>),
      Arr(<<Decimal(4, 10), Decimal(3, 10), Decimal(3, 10)>>),
      Arr(<<Decimal(15, 10)>>),
      Arr(<<Decimal(1, 10), Decimal(2, 10), Decimal(25, 10)>>) }

\* the loaded models: classifiers with predict_proba (and the predict every
\* scikit-learn estimator has), estimators with predict alone, Keras models
Models ==
    { Model(TRUE, proba, TRUE, predict, FALSE) :
          proba \in ProbaOutcomes,
          predict \in { Raised } \cup { Returned(label) : label \in Labels } }
    \cup { Model(TRUE, proba, FALSE, Raised, FALSE) : proba \in ProbaOutcomes }
    \cup { Model(FALSE, Raised, TRUE, predict, FALSE) :
              predict \in { Raised } \cup { Returned(v) : v \in RegressionValues \cup Labels } }
    \cup { Model(FALSE, Raised, TRUE, predict, TRUE) :
              predict \in { Raised } \cup { Returned(v) : v \in NetworkOutputs } }

\* a call of _make_prediction and its return
MakePrediction ==
    /\ probe.op = "predict_call"
    /\ probe' = [op |-> "predict", model |-> probe.model,
                 result |-> make_prediction(probe.model)]

\* the strengths and confidences of the signals given to the aggregator, in
\* tenths
SignalValues ==
    { <<9, 9>>, <<8, 9>>, <<5, 10>>, <<5, 5>>, <<1, 3>>, <<3, 9>>, <<9, 10>> }

\* the signals of the models: buy signals with each of these values, sell
\* signals with some of them, and a signal that is neither
RawSignals ==
    { RawSignal("buy", Decimal(v[1], 10), Decimal(v[2], 10)) : v \in SignalValues }
    \cup { RawSignal("sell", Decimal(v[1], 10), Decimal(v[2], 10)) :
               v \in { <<9, 9>>, <<8, 9>>, <<5, 5>> } }
    \cup { RawSignal("hold", Decimal(9, 10), Decimal(5, 10)) }

\* the dicts of signals by model, as sequences in insertion order
SignalDicts ==
    UNION { [1..n -> RawSignals] : n \in 0..MaxModels }

\* a call of _aggregate_signals and its return
AggregateSignals ==
    /\ probe.op = "aggregate_call"
    /\ probe' = [op |-> "aggregate", signals |-> probe.signals,
                 result |-> aggregate_signals(probe.signals)]

----------------------------------------------------------------------------
\* The feature builder: MLService._prepare_features and what it calls.  A
\* feature is written as the name of the quantity it holds.

\* line 531: _simulate_historical_data(price, 100)
HistoryLength == 100

\* the indicator groups of _calculate_technical_indicators in their order
Indicators == <<"ma", "rsi", "macd", "bb", "stoch">>

\* the window a group needs: `if len(prices) >= ...` (lines 577, 586, 593,
\* 604, 612 with TA-Lib; 625, 634, 647, 658, 669 without)
Lookback(indicator) ==
    CASE indicator = "ma" -> 20
      [] indicator = "rsi" -> 14
      [] indicator = "macd" -> 26
      [] indicator = "bb" -> 20
      [] indicator = "stoch" -> 14

\* what a group appends when the window is long enough, with TA-Lib (lines
\* 576-620) and without (lines 623-676)
Computed(talib, indicator) ==
    IF talib
    THEN CASE indicator = "ma" -> <<"talib.SMA 10", "talib.SMA 20", "talib.EMA 12">>
           [] indicator = "rsi" -> <<"talib.RSI or 50.0">>
           [] indicator = "macd" -> <<"macd or 0.0", "macdsignal or 0.0", "macdhist or 0.0">>
           [] indicator = "bb" -> <<"bb_position or 0.5">>
           [] indicator = "stoch" -> <<"slowk or 50.0", "slowd or 50.0">>
    ELSE CASE indicator = "ma" -> <<"mean of 10", "mean of 20", "last">>
           [] indicator = "rsi" -> <<"rsi">>
           [] indicator = "macd" -> <<"macd", "macd * 0.8", "macd - signal">>
           [] indicator = "bb" -> <<"bb_position">>
           [] indicator = "stoch" -> <<"k_percent", "k_percent * 0.8">>

Default_Single(indicator, last) == <<last>>

\* what a group appends otherwise: the else branches, `last` being prices[-1]
Default(indicator, last) ==
    CASE indicator = "ma" -> <<last, last, last>>
      [] indicator = "rsi" -> <<"50.0">>
      [] indicator = "macd" -> <<"0.0", "0.0", "0.0">>
      [] indicator = "bb" -> <<"0.5">>
      [] indicator = "stoch" -> <<"50.0", "50.0">>

\* MLService._simulate_historical_data(current_price, length), lines 558-568:
\* the current price last, length - 1 simulated prices before it
simulate_historical_data(current_price, length) ==
    [i \in 1..(IF length > 1 THEN length ELSE 1) |->
        IF i = (IF length > 1 THEN length ELSE 1) THEN current_price ELSE "simulated"]

\* the values of the groups from the i-th on
RECURSIVE IndicatorsFrom(_, _, _)
IndicatorsFrom(prices, talib, i) ==
    IF i > Len(Indicators) THEN <<>>
    ELSE (IF Len(prices) >= Lookback(Indicators[i])
          THEN Computed(talib, Indicators[i])
          ELSE Default(Indicators[i], prices[Len(prices)]))
         \o IndicatorsFrom(prices, talib, i + 1)

\* MLService._calculate_technical_indicators(prices), lines 570-683, for a
\* window of at least one price; `talib` is TALIB_AVAILABLE.  `fails` is the
\* group whose computation raises ("none": no group), and then the handler of
\* line 678 replaces the list by ten times prices[-1].
calculate_technical_indicators(prices, talib, fails) ==
    IF \E i \in 1..Len(Indicators) :
          Indicators[i] = fails /\ Len(prices) >= Lookback(fails)
    THEN [i \in 1..10 |-> prices[Len(prices)]]
    ELSE IndicatorsFrom(prices, talib, 1)

\* the fields of a market tick the feature builder reads
TickFields ==
    {"last", "price", "volume", "bid", "ask", "high", "low", "change", "percentage"}

\* a value of the tick, with the quantity it holds and whether float() takes
\* it
TickValue(of, ok) == [of |-> of, ok |-> ok]

\* a tick, a dict: the fields holding a number and the fields holding a value
\* float() rejects (None)
Tick(numbers, nones) ==
    [f \in numbers \cup nones |-> TickValue(f, f \in numbers)]

\* the feature array _prepare_features returns
Features(values) == [kind |-> "array", values |-> values]

\* scaler.transform(feature_array), lines 548-550: "none" no scaler is
\* registered for the model, "fitted" a scaler fitted to arrays of this width,
\* "misfit" a scaler that raises on it
Transform(values, scaler) ==
    IF scaler = "misfit" THEN None ELSE Features(values)

\* MLService._prepare_features(market_data, model_info, symbol), lines
\* 499-556; every exception gives None (line 554)
prepare_features(tick, talib, fails, scaler) ==
    LET price == Get(tick, "last", Get(tick, "price", TickValue("0", TRUE)))
        volume == Get(tick, "volume", TickValue("0", TRUE))
        bid == Get(tick, "bid", price)
        ask == Get(tick, "ask", price)
        high == Get(tick, "high", price)
        low == Get(tick, "low", price)
        change == Get(tick, "change", TickValue("0", TRUE))
        percentage == Get(tick, "percentage", TickValue("0", TRUE))
        basic == <<price.of, volume.of, bid.of, ask.of, "ask - bid", "(ask + bid) / 2",
                   high.of, low.of, change.of, percentage.of>>
        historical_prices == simulate_historical_data(price.of, HistoryLength)
        tech_features == calculate_technical_indicators(historical_prices, talib, fails)
    IN  IF \E v \in {price, volume, bid, ask, high, low, change, percentage} : ~v.ok
        THEN None
        ELSE Transform(basic \o tech_features \o <<"hour", "weekday", "month">>, scaler)

\* history windows around every lookback
WindowLengths == {1, 9, 10, 13, 14, 19, 20, 25, 26, 27, HistoryLength}

Failures == {"none", "ma", "rsi", "macd", "bb", "stoch"}

\* ticks: complete, with one of the prices alone, without a price, empty, and
\* with a field that holds None
Ticks ==
    { Tick(TickFields, {}), Tick({"last"}, {}), Tick({"price", "volume"}, {}),
      Tick({"bid", "ask", "volume"}, {}), Tick({}, {}),
      Tick({"price"}, {"last"}), Tick({"last"}, {"volume"}) }

Scalers == {"none", "fitted", "misfit"}

\* a call of _calculate_technical_indicators and its return
CalculateTechnicalIndicators ==
    /\ probe.op = "indicators_call"
    /\ probe' = [op |-> "indicators", prices |-> probe.prices, talib |-> probe.talib,
                 fails |-> probe.fails,
                 result |-> calculate_technical_indicators(probe.prices, probe.talib,
                                                           probe.fails)]

\* a call of _prepare_features and its return
PrepareFeatures ==
    /\ probe.op = "features_call"
    /\ probe' = [op |-> "features", tick |-> probe.tick, talib |-> probe.talib,
                 fails |-> probe.fails, scaler |-> probe.scaler,
                 result |-> prepare_features(probe.tick, probe.talib, probe.fails,
                                             probe.scaler)]

----------------------------------------------------------------------------
\* The model registry of MLService: load_model, save_model, delete_model,
\* _update_model_description, and generate_signals over the loaded models

\* the object after MLService.__init__: the three dicts of lines 99-101
MLService(loaded_models, model_scalers, model_info) ==
    [loaded_models |-> loaded_models, model_scalers |-> model_scalers,
     model_info |-> model_info]

\* the dataclass ModelInfo (lines 63-75); version, created_at, accuracy, target
\* and file_size, which nothing reads, are left out
ModelInfo(name, type, algorithm, features, parameters, description) ==
    [name |-> name, type |-> type, algorithm |-> algorithm, features |-> features,
     parameters |-> parameters, description |-> description]

\* utils/helpers.py sanitize_filename, lines 42-59, on the names used here:
\* an unsafe character becomes '_'
sanitize_filename(filename) ==
    IF filename = "m:2" THEN "m_2" ELSE filename

\* ModelInfo(...) of lines 308-320 and 377-389 from a configuration dict, or
\* the exception of datetime.fromisoformat for a 'created_at' that is not in
\* ISO format (load_model alone reads it)
NewModelInfo(model_name, model_type, config, reads_created_at) ==
    IF reads_created_at /\ Get(config, "created_at", "iso") # "iso" THEN Raised
    ELSE Returned(ModelInfo(model_name, model_type,
                            Get(config, "algorithm", "unknown"),
                            Get(config, "features", <<>>),
                            Get(config, "parameters", <<>>),
                            Get(config, "description", "")))

\* lines 286-293: the configuration of <name>_config.json; {} when the file is
\* absent or json.load raises
ReadConfig(config_file) ==
    IF config_file.kind = "dict" THEN config_file.content ELSE <<>>

\* a file pickle.load or joblib.load raises on
Corrupt == [corrupt |-> TRUE]

\* what a call gives back: the service as the call leaves it and the result
Outcome(service, success) == [service |-> service, success |-> success]

\* MLService.load_model(model_path), lines 263-334.  model_path has the stem
\* model_name and the suffix `suffix`; `content` is the object in the file or
\* Corrupt; scaler_file is "absent", "unreadable" or the scaler in
\* <name>_scaler.pkl; `tensorflow` is TENSORFLOW_AVAILABLE
load_model(service, model_name, suffix, content, config_file, scaler_file, tensorflow) ==
    IF suffix \notin {".pkl", ".joblib", ".h5"} \/ (suffix = ".h5" /\ ~tensorflow)
          \/ content = Corrupt
    THEN Outcome(service, FALSE)
    ELSE LET model_type == IF suffix = ".h5" THEN "tensorflow" ELSE "sklearn"
             config == ReadConfig(config_file)
             model_scalers == IF scaler_file \in {"absent", "unreadable"}
                              THEN service.model_scalers
                              ELSE DictSet(service.model_scalers, model_name, scaler_file)
             loaded_models == DictSet(service.loaded_models, model_name, content)
             model_info == NewModelInfo(model_name, model_type, config, TRUE)
         IN  IF model_info.raised
             THEN Outcome(MLService(loaded_models, model_scalers, service.model_info), FALSE)
             ELSE Outcome(MLService(loaded_models, model_scalers,
                                    DictSet(service.model_info, model_name,
                                            model_info.result)), TRUE)

\* MLService.save_model(model, model_name, model_info, scaler), lines 336-404.
\* `io` is the file operation that raises ("none": no one): all of them come
\* before the dicts are touched.  scaler is "None" or a scaler.
save_model(service, model, model_name, model_info, scaler, tensorflow, io) ==
    LET name == sanitize_filename(model_name)
        model_type == IF tensorflow /\ model.tensorflow THEN "tensorflow" ELSE "sklearn"
        info == NewModelInfo(name, model_type, model_info, FALSE).result
    IN  IF io # "none" /\ (io = "scaler" => scaler # "None")
        THEN Outcome(service, FALSE)
        ELSE Outcome(MLService(DictSet(service.loaded_models, name, model),
                               IF scaler # "None"
                               THEN DictSet(service.model_scalers, name, scaler)
                               ELSE service.model_scalers,
                               DictSet(service.model_info, name, info)), TRUE)

\* MLService.delete_model(model_name), lines 406-447: the dicts first, then
\* the files; `files` is "some" (files of the model are found and removed),
\* "none" or "raises" (unlink raises)
delete_model(service, model_name, files) ==
    Outcome(MLService(DictDel(service.loaded_models, model_name),
                      DictDel(service.model_scalers, model_name),
                      DictDel(service.model_info, model_name)),
            files = "some")

\* MLService._update_model_description(model_name, description), lines
\* 1065-1080: the entry of the dict is changed in place
update_model_description(service, model_name, description) ==
    IF DictHas(service.model_info, model_name)
    THEN MLService(service.loaded_models, service.model_scalers,
                   DictSet(service.model_info, model_name,
                           [DictGet(service.model_info, model_name)
                               EXCEPT !.description = description]))
    ELSE service

\* `continue`: the model gives nothing for the symbol
Skipped == [type |-> "continue"]

\* lines 463-482: the body of the try statement for one model and one symbol:
\* what it adds to symbol_signals, or the exception it ends with
\* lines 464-482: the tests of the body, on the ModelInfo of the model, the
\* features built for it and its prediction
SignalFrom(model_info, symbol, features, prediction) ==
    IF model_info.features # <<>> /\ model_info.parameters = None
    THEN Raised
    ELSE IF /\ model_info.features # <<>>
            /\ "symbols" \in DOMAIN model_info.parameters
            /\ model_info.parameters["symbols"] # {}
            /\ symbol \notin model_info.parameters["symbols"]
    THEN Returned(Skipped)
    ELSE IF features = None THEN Returned(Skipped)
    ELSE IF prediction = None THEN Returned(Skipped)
    ELSE Returned(prediction)

\* line 547: self.model_scalers.get(model_info.name), "none" without entry
ScalerOf(service, name) ==
    IF DictHas(service.model_scalers, name) THEN DictGet(service.model_scalers, name)
    ELSE "none"

ModelSignal(service, model_name, symbol, data, talib) ==
    IF ~DictHas(service.model_info, model_name) THEN Returned(Skipped)
    ELSE SignalFrom(DictGet(service.model_info, model_name), symbol,
                    prepare_features(data, talib, "none",
                                     ScalerOf(service, DictGet(service.model_info, model_name).name)),
                    make_prediction(DictGet(service.loaded_models, model_name)))

ModelErrorHandler_Propagates(rest) == Raised

\* lines 484-485: `except Exception` inside the loop over the models logs the
\* error; the loop goes on with the next model
ModelErrorHandler(rest) == rest

\* the order in which the loop of line 462 meets the models.  With two models
\* the order of the dict changes no value of the aggregation.
ModelOrder == <<"m1", "m_2">>

\* lines 462-485: symbol_signals for one symbol, as the sequence of its values
\* one pass of the loop of line 462: what the model adds to the signals the
\* later models give
WithSignal(loaded, this, rest) ==
    IF ~loaded THEN rest
    ELSE IF this.raised THEN ModelErrorHandler(rest)
    ELSE IF rest.raised \/ this.result = Skipped THEN rest
    ELSE Returned(<<this.result>> \o rest.result)

RECURSIVE SymbolSignals(_, _, _, _, _)
SymbolSignals(service, names, symbol, data, talib) ==
    IF names = <<>> THEN Returned(<<>>)
    ELSE WithSignal(DictHas(service.loaded_models, Head(names)),
                    ModelSignal(service, Head(names), symbol, data, talib),
                    SymbolSignals(service, Tail(names), symbol, data, talib))

\* lines 458-491: the loop over the symbols of market_data, a sequence of
\* items [key, val]; the dict `signals`, or the exception that leaves the loop
\* lines 487-491: the aggregated signal of the symbol, when there is one, is
\* entered in `signals`
Aggregated(symbol, symbol_signals, aggregated_signal, rest) ==
    IF symbol_signals # <<>> /\ aggregated_signal # None
    THEN Returned(DictSet(rest.result, symbol, aggregated_signal))
    ELSE rest

\* one pass of the loop of line 458
WithSymbol(symbol, symbol_signals, rest) ==
    IF symbol_signals.raised \/ rest.raised THEN Raised
    ELSE Aggregated(symbol, symbol_signals.result,
                    aggregate_signals(symbol_signals.result), rest)

RECURSIVE SignalsOf(_, _, _)
SignalsOf(service, market_data, talib) ==
    IF market_data = <<>> THEN Returned({})
    ELSE WithSymbol(Head(market_data).key,
                    SymbolSignals(service, ModelOrder, Head(market_data).key,
                                  Head(market_data).val, talib),
                    SignalsOf(service, Tail(market_data), talib))

\* MLService.generate_signals(market_data), lines 449-497: {} without models,
\* and {} from the handler of line 495
\* lines 495-497: the handler of generate_signals returns {}
Handled(signals) == IF signals.raised THEN {} ELSE signals.result

generate_signals(service, market_data, talib) ==
    IF service.loaded_models = {} THEN {}
    ELSE Handled(SignalsOf(service, market_data, talib))

\* the models in the files and given to save_model: a classifier that says
\* 'buy', a regressor that says 1.5, an estimator whose predict raises, and a
\* Keras model with the output 0.7
BuyModel == Model(FALSE, Raised, TRUE, Returned(Str("buy")), FALSE)

RegressionModel ==
    Model(FALSE, Raised, TRUE, Returned(Num("float64", FALSE, Decimal(150, 100))), FALSE)

RaisingModel == Model(FALSE, Raised, TRUE, Raised, FALSE)

KerasModel == Model(FALSE, Raised, TRUE, Returned(Arr(<<Decimal(7, 10)>>)), TRUE)

\* model files: suffix and content
ModelFiles ==
    { [suffix |-> ".pkl", content |-> BuyModel], [suffix |-> ".joblib", content |-> RaisingModel], [suffix |-> ".pkl", content |-> Corrupt],
      [suffix |-> ".h5", content |-> KerasModel], [suffix |-> ".onnx", content |-> BuyModel] }


\* what is at <name>_config.json: nothing, a complete configuration, one
\* whose 'created_at' is a date not in ISO format
ConfigFiles ==
    { [kind |-> "absent"],
      [kind |-> "dict",
       content |-> [algorithm |-> "random_forest", features |-> <<"price">>,
                    parameters |-> [symbols |-> {"EURUSD"}], description |-> "first"]],
      [kind |-> "dict",
       content |-> [algorithm |-> "svm_classifier", created_at |-> "01/05/2024"]] }

\* the model_info dicts given to save_model: empty, and one whose
\* 'parameters' is None
SavedInfos ==
    { <<>>, [features |-> <<"price">>, parameters |-> None] }

\* the symbols and ticks of a call of generate_signals
MarketData ==
    { <<[key |-> "EURUSD", val |-> Tick(TickFields, {})]>>,
      <<[key |-> "EURUSD", val |-> Tick({"bid", "ask", "volume"}, {})],
        [key |-> "BTCUSD", val |-> Tick({"last"}, {})]>>,
      <<[key |-> "BTCUSD", val |-> Tick({"last"}, {"volume"})],
        [key |-> "GBPUSD", val |-> Tick({"price", "volume"}, {})]>> }

\* a call of load_model and its return
LoadModel(model_name, file, config_file, scaler_file, tensorflow) ==
    LET call == load_model(ml, model_name, file.suffix, file.content, config_file,
                           scaler_file, tensorflow)
    IN  /\ ml' = call.service
        /\ probe' = [op |-> "load", name |-> model_name, stored |-> model_name,
                     success |-> call.success]

\* a call of save_model and its return
SaveModel(model, model_name, model_info, scaler, tensorflow, io) ==
    LET call == save_model(ml, model, model_name, model_info, scaler, tensorflow, io)
    IN  /\ ml' = call.service
        /\ probe' = [op |-> "save", name |-> model_name,
                     stored |-> sanitize_filename(model_name), success |-> call.success]

\* a call of delete_model and its return
DeleteModel(model_name, files) ==
    LET call == delete_model(ml, model_name, files)
    IN  /\ ml' = call.service
        /\ probe' = [op |-> "delete", name |-> model_name, stored |-> model_name,
                     success |-> call.success]

\* a call of _update_model_description and its return
UpdateModelDescription(model_name, description) ==
    /\ ml' = update_model_description(ml, model_name, description)
    /\ probe' = [op |-> "describe", name |-> model_name, stored |-> model_name,
                 success |-> TRUE]

\* a call of generate_signals and its return
GenerateSignals(market_data, talib) ==
    /\ probe' = [op |-> "generate", market_data |-> market_data,
                 result |-> generate_signals(ml, market_data, talib)]
    /\ UNCHANGED ml

----------------------------------------------------------------------------
\* The DDNS service: src/backend/services/ddns_service.py

\* DDNSConfig.retry_attempts, line 28
RetryAttempts == 3

\* the failures and successes the status counts at most: a call of
\* update_ddns_record begins only while its attempts fit
MaxCount == 6

\* DDNSStatus (lines 32-41): the counters and last_error; the clock fields and
\* the address are left out
DDNSStatus(update_count, error_count, last_error) ==
    [update_count |-> update_count, error_count |-> error_count, last_error |-> last_error]

\* the frame of update_ddns_record: where it is, retry_count, the HTTP requests
\* it has sent, the responses it has received, the status it found, and what
\* it returned
UpdateCall(pc, retry_count, requests, responses, found, result) ==
    [pc |-> pc, retry_count |-> retry_count, requests |-> requests,
     responses |-> responses, found |-> found, result |-> result]

NoUpdate == UpdateCall("idle", 0, 0, 0, DDNSStatus(0, 0, "None"), "None")

\* the object after DDNSService.__init__ (lines 46-51) and later: _session is
\* "None", "open" or "closed"
DDNSService(is_running, session, status, call) ==
    [is_running |-> is_running, session |-> session, status |-> status, call |-> call]

\* what the GET of line 192 meets: the request raises (no connection,
\* timeout), or there is a response with its status and its body:
\* "success" a JSON object with result = 'success', "failure" another JSON
\* object, "text" not JSON, "scalar" JSON that is not an object (0, "ok", [])
Responses ==
    { Raised } \cup
    { Returned([status |-> status, body |-> body]) :
          status \in {200, 500}, body \in {"success", "failure", "text", "scalar"} }

\* lines 196-199: json.loads(response_text), {'message': response_text} when
\* it raises JSONDecodeError; "dict" or what is not a dict
ResponseData(body) == IF body = "scalar" THEN "scalar" ELSE "dict"

\* ResponseData with every body taken as a dict
ResponseData_AlwaysDict(body) == "dict"

\* lines 201-246: what the body of `async with` does with a response: it
\* returns a result, or response_data.get raises AttributeError
HandleResponse(response) ==
    IF response.status = 200
    THEN IF ResponseData(response.body) # "dict" THEN "raises"
         ELSE IF response.body = "success" THEN "success"
         ELSE "failure"
    ELSE "failure"

\* DDNSService.start(), lines 70-90, up to the task it creates
DdnsStart ==
    /\ ~ddns.is_running
    /\ ddns' = [ddns EXCEPT !.is_running = TRUE, !.session = "open"]

\* DDNSService.stop(), lines 92-112: the session is closed, _session keeps it
DdnsStop ==
    /\ ddns.is_running
    /\ ddns' = [ddns EXCEPT !.is_running = FALSE, !.session = "closed"]

\* update_ddns_record is called: lines 184-188
UpdateBegin ==
    /\ ddns.call.pc = "idle"
    /\ ddns.status.update_count + ddns.status.error_count + RetryAttempts <= MaxCount
    /\ ddns' = [ddns EXCEPT !.call =
                   IF ddns.session = "None"
                   THEN UpdateCall("done", 0, 0, 0, ddns.status, "Service not started")
                   ELSE UpdateCall("loop", 0, 0, 0, ddns.status, "None")]

\* one pass of `while retry_count < self.config.retry_attempts` (189-264), or
\* the return after the loop (266-270); on a closed session get raises
\* without sending
UpdateAttempt(response) ==
    /\ ddns.call.pc = "loop"
    /\ LET call == ddns.call
           status == ddns.status
           sent == ddns.session = "open"
           handled == IF sent /\ ~response.raised THEN HandleResponse(response.result)
                      ELSE "raises"
           requests == call.requests + (IF sent THEN 1 ELSE 0)
           responses == call.responses + (IF sent /\ ~response.raised THEN 1 ELSE 0)
           failed == DDNSStatus(status.update_count, status.error_count + 1,
                                IF handled = "raises" THEN "exception" ELSE "error_msg")
       IN  ddns' =
             IF ~(call.retry_count < RetryAttempts)
             THEN [ddns EXCEPT !.call = UpdateCall("done", call.retry_count, call.requests,
                                                   call.responses, call.found, "failed")]
             ELSE IF handled = "success"
             THEN [ddns EXCEPT
                     !.status = DDNSStatus(status.update_count + 1, status.error_count,
                                           status.last_error),
                     !.call = UpdateCall("done", call.retry_count, requests, responses,
                                         call.found, "success")]
             ELSE IF handled = "failure"
             THEN [ddns EXCEPT
                     !.status = failed,
                     !.call = UpdateCall("done", call.retry_count, requests, responses,
                                         call.found, "failed")]
             ELSE [ddns EXCEPT
                     !.status = failed,
                     !.call = IF call.retry_count + 1 < RetryAttempts
                              THEN UpdateCall("loop", call.retry_count + 1, requests,
                                              responses, call.found, "None")
                              ELSE UpdateCall("done", call.retry_count + 1, requests,
                                              responses, call.found, "failed")]

\* the caller has the result
UpdateReturn ==
    /\ ddns.call.pc = "done"
    /\ ddns' = [ddns EXCEPT !.call = NoUpdate]

\* the services before any call
InitServices ==
    /\ ml = MLService({}, {}, {})
    /\ ddns = DDNSService(FALSE, "None", DDNSStatus(0, 0, "None"), NoUpdate)

----------------------------------------------------------------------------
\* The specifications

\* the application state before any request: AppState() with the brokers that
\* load_broker_configs has entered in system_status, no session, no thread
InitApp(brokers) ==
    /\ app_state = AppState(FALSE, {}, <<>>, brokers)
    /\ db = [id \in SessionIds |-> TradingSession("none", FALSE)]
    /\ start = [h \in HandlerIds |-> NoStart]
    /\ stop = StopCall("idle")
    /\ loop = [id \in SessionIds |-> NoLoop]

Init ==
    /\ connections = {}
    /\ heap = [s \in Slots |-> FreeSlot]
    /\ trade_history = <<>>
    /\ mt5_session = "none"
    /\ orders_sent = 0
    /\ ctl = NoCall
    /\ exe = NoBatch
    /\ probe = [op |-> "none"]
    /\ InitServices
    /\ InitApp({})

ClassOf(name) ==
    IF name \in DOMAIN supported_brokers THEN supported_brokers[name].connector_class ELSE "None"

ConnectRequest(names) ==
    \E n \in names, c \in CredentialSets :
        \E sdk \in SdkConnectOutcomes(ClassOf(n)) : ConnectBroker(n, c, sdk)

DisconnectRequest(names) ==
    \E n \in names, sdk \in SdkTeardownOutcomes : DisconnectBegin(n, sdk)

LoopExecute(names) ==
    \E n \in names, b \in SignalBatches : ExecuteBegin(n, b)

\* the SDK outcomes the loop's batches meet: an accepted order, a refusal the
\* connector returns, an exception
LoopSdkOutcomes == {"done", "no_data", "order_raises"}

LoopStep ==
    \E sdk \in LoopSdkOutcomes : ExecuteStep(sdk)

\* one call of the service at a time: a request steps while no batch runs, the
\* loop's execute_signals call steps while no request runs
LoopIdle == exe.pc = "idle"

ControlIdle == ctl.pc = "idle"

Next ==
    \/ LoopIdle /\ ConnectRequest(RequestNames) /\ UNCHANGED appVars
    \/ LoopIdle /\ DisconnectRequest(RequestNames) /\ UNCHANGED appVars
    \/ LoopIdle /\ DisconnectDeactivate /\ UNCHANGED appVars
    \/ LoopIdle /\ DisconnectRemove /\ UNCHANGED appVars
    \/ LoopIdle /\ CtlReturn /\ UNCHANGED appVars
    \/ ControlIdle /\ LoopExecute(RequestNames) /\ UNCHANGED appVars
    \/ ControlIdle /\ ExecuteFetch /\ UNCHANGED appVars
    \/ ControlIdle /\ LoopStep /\ UNCHANGED appVars
    \/ ControlIdle /\ ExeReturn /\ UNCHANGED appVars

Spec == Init /\ [][Next]_vars

\* the loop thread and a request thread, interleaved statement by statement
RaceNames == {"XM", "Acme"}

NextRace ==
    \/ ConnectRequest(RaceNames) /\ UNCHANGED appVars
    \/ DisconnectRequest(RaceNames) /\ UNCHANGED appVars
    \/ DisconnectDeactivate /\ UNCHANGED appVars
    \/ DisconnectRemove /\ UNCHANGED appVars
    \/ CtlReturn /\ UNCHANGED appVars
    \/ LoopExecute(RaceNames) /\ UNCHANGED appVars
    \/ ExecuteFetch /\ UNCHANGED appVars
    \/ LoopStep /\ UNCHANGED appVars
    \/ ExeReturn /\ UNCHANGED appVars

SpecRace == Init /\ [][NextRace]_vars

\* two brokers of the catalog that both use the MT5Connector class, and with it
\* the one MetaTrader5 module of the process
TerminalNames == {"XM", "IC Markets"}

\* connect_broker, disconnect_broker and execute_signals calls for the two,
\* one call of the service at a time
NextTerminals ==
    \/ LoopIdle /\ ConnectRequest(TerminalNames) /\ UNCHANGED appVars
    \/ LoopIdle /\ DisconnectRequest(TerminalNames) /\ UNCHANGED appVars
    \/ LoopIdle /\ DisconnectDeactivate /\ UNCHANGED appVars
    \/ LoopIdle /\ DisconnectRemove /\ UNCHANGED appVars
    \/ LoopIdle /\ CtlReturn /\ UNCHANGED appVars
    \/ ControlIdle /\ LoopExecute(TerminalNames) /\ UNCHANGED appVars
    \/ ControlIdle /\ ExecuteFetch /\ UNCHANGED appVars
    \/ ControlIdle /\ LoopStep /\ UNCHANGED appVars
    \/ ControlIdle /\ ExeReturn /\ UNCHANGED appVars

SpecTerminals == Init /\ [][NextTerminals]_vars

\* the connector classes on their own, next to connect_broker for the placeholders
ConnectorCall ==
    \/ \E cls \in ConnectorClasses, c \in CredentialSets :
         \E sdk \in SdkConnectOutcomes(cls) : ProbeConnect(cls, c, sdk)
    \/ \E cls \in ConnectorClasses, t \in SignalTypes, k \in Strengths :
         \E sdk \in SdkTradeOutcomes(cls) :
            ProbeExecuteTrade(cls, "EURUSD", Signal("EURUSD", t, k), sdk)

NextConnector ==
    (ConnectRequest(PlaceholderNames) \/ CtlReturn \/ ConnectorCall) /\ UNCHANGED appVars

SpecConnector == Init /\ [][NextConnector]_vars

\* The application after initialize_application (app.py:105-126) with one
\* stored broker configuration, XM: load_broker_configs has called
\* connect_broker for it and entered it in system_status, connected or failed
InitTrading ==
    \E sdk \in {"ok", "login_fail"} :
        LET credentials == {"login", "password", "server"}
            connected == ConnectBrokerRun("XM", credentials, sdk).value
        IN  /\ connections = IF connected THEN AssignConnection({}, "XM", 1) ELSE {}
            /\ heap = [s \in Slots |-> IF connected /\ s = 1
                                         THEN NewConnection("XM", credentials) ELSE FreeSlot]
            /\ trade_history = <<>>
            /\ mt5_session = SessionAfterConnect("MT5Connector", "XM", credentials, sdk, "none")
            /\ orders_sent = 0
            /\ ctl = NoCall
            /\ exe = NoBatch
            /\ probe = [op |-> "none"]
            /\ InitServices
    /\ InitServices
            /\ InitApp({[key |-> "XM", val |-> IF connected THEN "connected" ELSE "failed"]})

\* a step of a start_trading handler; `oks` are the outcomes the database may
\* have (TRUE: the commit succeeds)
StartStep(oks) ==
    \/ \E h \in HandlerIds, config \in StrategyConfigs : StartCheck(h, config)
    \/ \E h \in HandlerIds, committed \in oks : StartCreate(h, committed)
    \/ \E h \in HandlerIds : StartActivate(h)
    \/ \E h \in HandlerIds : StartReturn(h)

\* a step of the stop_trading handler
StopStep == StopBegin \/ StopFinalize \/ StopClear

\* a step of the loop thread of session id; `oks` are the outcomes its calls
\* may have (TRUE: the call returns, FALSE: it raises), `picks` what the risk
\* filter may let through, `sdks` the outcomes the broker SDK may have
LoopThreadStep(id, oks, picks, sdks) ==
    \/ LoopTop(id) /\ UNCHANGED <<brokerVars, probe, ml, ddns>>
    \/ (\E market_ok \in oks, ml_signals \in MlSignals \cup { <<>> } :
            LoopGather(id, market_ok, ml_signals)) /\ UNCHANGED <<brokerVars, probe, ml, ddns>>
    \/ (\E filter_ok \in oks, pick \in picks :
            LoopFilter(id, filter_ok, FilterOutput(loop[id].all_signals, pick)))
         /\ UNCHANGED <<brokerVars, probe, ml, ddns>>
    \/ \E sdk \in sdks : LoopExecuteBrokers(id, sdk)
    \/ (\E db_ok \in oks : LoopPersist(id, db_ok)) /\ UNCHANGED <<brokerVars, probe, ml, ddns>>
    \/ (\E emit_ok \in oks : LoopBroadcast(id, emit_ok)) /\ UNCHANGED <<brokerVars, probe, ml, ddns>>
    \/ LoopWait(id) /\ UNCHANGED <<brokerVars, probe, ml, ddns>>
    \/ (\E emit_ok \in oks : LoopHandler(id, emit_ok)) /\ UNCHANGED <<brokerVars, probe, ml, ddns>>
    \/ LoopCooldown(id) /\ UNCHANGED <<brokerVars, probe, ml, ddns>>
    \/ LoopFinally(id) /\ UNCHANGED <<brokerVars, probe, ml, ddns>>

\* the request threads and the loop threads, interleaved statement by
\* statement, while the services, the database and the broadcasts work, the
\* risk filter lets every signal through and the broker has no price
NextTrading ==
    \/ StartStep({TRUE}) /\ UNCHANGED <<brokerVars, probe, ml, ddns>>
    \/ StopStep /\ UNCHANGED <<brokerVars, probe, ml, ddns>>
    \/ \E id \in SessionIds : LoopThreadStep(id, {TRUE}, {"all"}, {"no_data"})

SpecTrading == InitTrading /\ [][NextTrading]_vars

\* no start_trading request has been made
NoRequestYet ==
    /\ \A id \in SessionIds : db[id].status = "none"
    /\ \A h \in HandlerIds : start[h].pc = "idle"

\* the SDK outcomes the batches of the session meet
SessionSdkOutcomes == {"done", "no_data", "order_raises"}

\* one trading session from its start_trading request to the end of its loop
\* thread, with stop_trading requests at any time, every call of the loop
\* returning or raising
NextSession ==
    \/ NoRequestYet /\ (\E config \in StrategyConfigs : StartCheck(1, config))
         /\ UNCHANGED <<brokerVars, probe, ml, ddns>>
    \/ (\E committed \in BOOLEAN : StartCreate(1, committed)) /\ UNCHANGED <<brokerVars, probe, ml, ddns>>
    \/ StartActivate(1) /\ UNCHANGED <<brokerVars, probe, ml, ddns>>
    \/ StartReturn(1) /\ UNCHANGED <<brokerVars, probe, ml, ddns>>
    \/ StopStep /\ UNCHANGED <<brokerVars, probe, ml, ddns>>
    \/ \E id \in SessionIds : LoopThreadStep(id, BOOLEAN, FilterPicks, SessionSdkOutcomes)

SpecSession == InitTrading /\ [][NextSession]_vars

\* a started thread is scheduled again and again, and what it calls returns
SpecSessionFair ==
    SpecSession /\ \A id \in SessionIds :
                      WF_vars(LoopThreadStep(id, BOOLEAN, FilterPicks, SessionSdkOutcomes))

\* the calls of the ML service on their own: the arguments of a call
MLCalls ==
    { [op |-> "aggregate_call", signals |-> signals] : signals \in SignalDicts }
    \cup { [op |-> "predict_call", model |-> model] : model \in Models }
    \cup { [op |-> "indicators_call", prices |-> simulate_historical_data("price", n),
             talib |-> talib, fails |-> fails] :
               n \in WindowLengths, talib \in BOOLEAN, fails \in Failures }
    \cup { [op |-> "features_call", tick |-> tick, talib |-> talib, fails |-> fails,
             scaler |-> scaler] :
               tick \in Ticks, talib \in BOOLEAN, fails \in Failures, scaler \in Scalers }

InitML ==
    /\ connections = {}
    /\ heap = [s \in Slots |-> FreeSlot]
    /\ trade_history = <<>>
    /\ mt5_session = "none"
    /\ orders_sent = 0
    /\ ctl = NoCall
    /\ exe = NoBatch
    /\ probe \in MLCalls
    /\ InitServices
    /\ InitApp({})

NextML ==
    \/ AggregateSignals /\ UNCHANGED <<brokerVars, appVars, serviceVars>>
    \/ MakePrediction /\ UNCHANGED <<brokerVars, appVars, serviceVars>>
    \/ CalculateTechnicalIndicators /\ UNCHANGED <<brokerVars, appVars, serviceVars>>
    \/ PrepareFeatures /\ UNCHANGED <<brokerVars, appVars, serviceVars>>

SpecML == InitML /\ [][NextML]_vars

\* the names the dicts may hold
ModelNames == {"m1", "m_2"}

\* the model registry: calls of the ML service one at a time.  "m1" comes
\* from files, "m:2" from save_model, which stores it as "m_2"; TA-Lib is
\* installed.
NextModels ==
    \/ \E file \in ModelFiles, config_file \in ConfigFiles,
          scaler_file \in {"absent", "misfit"} :
         \E tensorflow \in (IF file.suffix = ".h5" THEN BOOLEAN ELSE {TRUE}) :
            LoadModel("m1", file, config_file, scaler_file, tensorflow)
            /\ UNCHANGED <<brokerVars, appVars, ddns>>
    \/ \E model_info \in SavedInfos, scaler \in {"None", "fitted"},
          io \in {"none", "scaler"} :
         SaveModel(RegressionModel, "m:2", model_info, scaler, TRUE, io)
         /\ UNCHANGED <<brokerVars, appVars, ddns>>
    \/ \E model_name \in ModelNames, files \in {"some", "none"} :
         DeleteModel(model_name, files) /\ UNCHANGED <<brokerVars, appVars, ddns>>
    \/ \E model_name \in ModelNames :
         UpdateModelDescription(model_name, "edited")
         /\ UNCHANGED <<brokerVars, appVars, ddns>>
    \/ \E market_data \in MarketData :
         GenerateSignals(market_data, TRUE) /\ UNCHANGED <<brokerVars, appVars, ddns>>

SpecModels == Init /\ [][NextModels]_vars

\* the DDNS service: start, stop and update_ddns_record, one call of it at a
\* time, start and stop between its awaits
NextDdns ==
    \/ DdnsStart /\ UNCHANGED <<brokerVars, appVars, probe, ml>>
    \/ DdnsStop /\ UNCHANGED <<brokerVars, appVars, probe, ml>>
    \/ UpdateBegin /\ UNCHANGED <<brokerVars, appVars, probe, ml>>
    \/ (\E response \in Responses : UpdateAttempt(response))
         /\ UNCHANGED <<brokerVars, appVars, probe, ml>>
    \/ UpdateReturn /\ UNCHANGED <<brokerVars, appVars, probe, ml>>

SpecDdns == Init /\ [][NextDdns]_vars

----------------------------------------------------------------------------
\* Properties of the broker service

\* this step is the first step of a control-plane call `op`
CallBegins(op) == ctl.pc = "idle" /\ ctl'.pc # "idle" /\ ctl'.op = op

\* this step is the first step of an execute_signals call
BatchBegins == exe.pc = "idle" /\ exe'.pc # "idle"

\* the credential fields a broker requires, as the specification words them
ClaimedRequired(name) ==
    IF supported_brokers[name].connector_class = "MT5Connector"
    THEN {"login", "password", "server"}
    ELSE IF supported_brokers[name].type = "crypto"
    THEN {"api_key", "secret"}
    ELSE {"api_key"}

EntriesOf(d, name) == {e \in d : e.key = name}

\* the object is a connection as connect_broker(name, credentials) creates it
FreshConnection(obj, name, credentials) ==
    /\ obj.name = name
    /\ obj.credentials = credentials
    /\ obj.is_active
    /\ ~obj.connector.disconnect_called

IsPrefix(s, t) == Len(s) <= Len(t) /\ \A i \in 1..Len(s) : s[i] = t[i]

\* C1: after any sequence of connect_broker and disconnect_broker calls a broker
\* name has at most one connection in the live map, and a successful
\* connect_broker on a name that is already connected leaves one entry for the
\* name: the new connection, in place of the old one.
C1_OneConnectionPerName ==
    [][ /\ \A e1 \in connections', e2 \in connections' : e1.key = e2.key => e1 = e2
        /\ (CallBegins("connect_broker") /\ ctl'.value /\ DictHas(connections, ctl'.name)) =>
             LET old == DictGet(connections, ctl'.name) IN
             /\ Cardinality(EntriesOf(connections', ctl'.name)) = 1
             /\ \A e \in connections' : e.val # old
             /\ FreshConnection(heap'[DictGet(connections', ctl'.name)],
                                ctl'.name, ctl'.credentials)
      ]_vars

\* a connect_broker call has succeeded on a name that was connected
C1_Witness ==
    /\ ctl.op = "connect_broker" /\ ctl.pc = "done" /\ ctl.value /\ ctl.had
    /\ Cardinality(connections) = 2

\* C2: connect_broker changes the entry of the name only when the name is
\* supported, the credentials have the required fields and the connector's
\* connect() returns true; then it returns true and the entry is a new, active
\* connection.  Otherwise it returns false and leaves the map as it was.
C2_ConnectOnlyOnSuccess ==
    [][ CallBegins("connect_broker") =>
          LET n == ctl'.name
              c == ctl'.credentials
              accepted == /\ n \in DOMAIN supported_brokers
                          /\ ClaimedRequired(n) \subseteq c
                          /\ ConnectorConnect(supported_brokers[n].connector_class, c, ctl'.sdk)
          IN  /\ ctl'.pc = "done"
              /\ IF accepted
                 THEN /\ ctl'.value
                      /\ DictHas(connections', n)
                      /\ FreshConnection(heap'[DictGet(connections', n)], n, c)
                      /\ DictHas(connections, n) =>
                            DictGet(connections', n) # DictGet(connections, n)
                      /\ connections' \ EntriesOf(connections', n)
                            = connections \ EntriesOf(connections, n)
                 ELSE /\ ~ctl'.value
                      /\ connections' = connections
                      /\ \A e \in connections : heap'[e.val] = heap[e.val]
      ]_vars

\* connect() has failed for a name that is connected: the old entry is still there
C2_Witness ==
    /\ ctl.op = "connect_broker" /\ ctl.pc = "done" /\ ~ctl.value /\ ctl.had
    /\ ctl.sdk = "login_fail"
    /\ ctl.events = <<"validate", "create", "construct", "connect">>
    /\ DictHas(connections, ctl.name)

\* C3: when the credentials lack a required field (login/password/server for
\* the MT5-style brokers, api_key/secret for the crypto brokers, api_key for
\* every other broker) connect_broker returns false, constructs no connector
\* and calls no connect().
C3_ValidationBeforeConstruction ==
    /\ \A n \in DOMAIN supported_brokers :
          RequiredFields(supported_brokers[n]) = ClaimedRequired(n)
    /\ ( /\ ctl.op = "connect_broker" /\ ctl.pc = "done"
         /\ ctl.name \in DOMAIN supported_brokers
         /\ ~(ClaimedRequired(ctl.name) \subseteq ctl.credentials) )
       => /\ ~ctl.value
          /\ \A i \in DOMAIN ctl.events : ctl.events[i] \notin {"create", "construct", "connect"}

\* an MT5-style broker has been asked to connect with {api_key} alone, a crypto
\* broker likewise
C3_Witness ==
    /\ ctl.op = "connect_broker" /\ ctl.pc = "done" /\ ~ctl.value
    /\ ctl.name = "XM" /\ ctl.credentials = {"api_key"}
    /\ ctl.events = <<"validate">>

\* C4: disconnect_broker on a name that has no entry returns false, invokes no
\* teardown and leaves the connection map, every connection's is_active flag
\* and the trade history unchanged.
C4_DisconnectAbsent ==
    [][ (CallBegins("disconnect_broker") /\ ~DictHas(connections, ctl'.name)) =>
          /\ ctl'.pc = "done"
          /\ ~ctl'.value
          /\ ctl'.events = <<>>
          /\ UNCHANGED <<connections, heap, trade_history, mt5_session>>
      ]_vars

\* the call has returned false for a name without entry while another broker
\* is connected and trades are on record
C4_Witness ==
    /\ ctl.op = "disconnect_broker" /\ ctl.pc = "done" /\ ~ctl.had /\ ~ctl.value
    /\ connections # {}
    /\ trade_history # <<>>

\* C5: disconnect_broker on a connected name invokes the connector's
\* disconnect(), then sets is_active to false, then removes the entry, in that
\* order; it returns true and the name is not in the map afterwards.
C5_DisconnectOrder ==
    /\ ctl.pc = "deactivate" =>
          /\ ctl.events = <<"teardown">>
          /\ heap[ctl.conn].connector.disconnect_called
          /\ heap[ctl.conn].is_active
          /\ DictHas(connections, ctl.name) /\ DictGet(connections, ctl.name) = ctl.conn
    /\ ctl.pc = "remove" =>
          /\ ctl.events = <<"teardown", "deactivate">>
          /\ heap[ctl.conn].connector.disconnect_called
          /\ ~heap[ctl.conn].is_active
          /\ DictHas(connections, ctl.name) /\ DictGet(connections, ctl.name) = ctl.conn
    /\ (ctl.op = "disconnect_broker" /\ ctl.pc = "done" /\ ctl.had) =>
          /\ ctl.events = <<"teardown", "deactivate", "remove">>
          /\ ctl.value
          /\ ~DictHas(connections, ctl.name)

\* a connected broker has been disconnected
C5_Witness ==
    /\ ctl.op = "disconnect_broker" /\ ctl.pc = "done" /\ ctl.had /\ ctl.value
    /\ ctl.name = "Binance"

\* this step is execute_signals reading its guards for a broker that has no
\* entry, or whose connection is not active
GuardFails ==
    \/ /\ exe.pc = "idle" /\ exe'.pc # "idle"
       /\ ~DictHas(connections, exe'.broker)
    \/ /\ exe.pc = "fetch" /\ exe'.pc # "fetch"
       /\ \/ ~DictHas(connections, exe.broker)
          \/ ~heap[DictGet(connections, exe.broker)].is_active

\* this step is one iteration of the for loop of execute_signals
SymbolExecuted == exe.pc = "iter" /\ exe'.idx = exe.idx + 1

\* C6: when the broker has no entry in the connection map, or its connection is
\* not active, execute_signals returns one error payload: it makes no
\* execute_trade call, reports no symbol and leaves the trade history as it was.
C6_FailFast ==
    [][ GuardFails =>
          /\ exe'.pc = "done"
          /\ exe'.error # ""
          /\ exe'.results = {}
          /\ exe'.calls = <<>>
          /\ trade_history' = trade_history
          /\ orders_sent' = orders_sent
      ]_vars

\* a batch of signals has met a connection that a disconnect_broker in progress
\* had made inactive
C6_Witness ==
    /\ exe.pc = "done" /\ exe.error = "Connection is not active"
    /\ exe.signals # <<>>
    /\ ctl.op = "disconnect_broker" /\ ctl.pc = "remove"

\* C7: for a connected, active broker the result map of execute_signals has
\* exactly one entry per symbol of the batch; every symbol is executed once, in
\* order, and its entry is its own result: an error entry when its call failed
\* or raised, whatever happened to the other symbols.
C7_PerSymbolIsolation ==
    (exe.pc = "done" /\ exe.error = "") =>
        /\ Cardinality(exe.results) = Len(exe.signals)
        /\ Len(exe.calls) = Len(exe.signals)
        /\ \A i \in 1..Len(exe.signals) :
              LET symbol == exe.signals[i].symbol IN
              /\ exe.calls[i].symbol = symbol
              /\ Cardinality(EntriesOf(exe.results, symbol)) = 1
              /\ LET entry == DictGet(exe.results, symbol) IN
                 IF exe.calls[i].sdk = "done"
                 THEN /\ Get(entry, "success", FALSE)
                      /\ entry.symbol = symbol
                      /\ entry.type = exe.signals[i].type
                 ELSE /\ ~Get(entry, "success", FALSE)
                      /\ "error" \in DOMAIN entry

\* the first symbol's order call has raised and the second symbol has traded
C7_Witness ==
    /\ exe.pc = "done" /\ exe.error = ""
    /\ Len(exe.signals) = 2
    /\ exe.calls[1].sdk = "order_raises"
    /\ exe.calls[2].sdk = "done"
    /\ DictGet(exe.results, exe.signals[1].symbol).error = "exception"
    /\ DictGet(exe.results, exe.signals[2].symbol).success

\* C8: the trade history only grows at its end: no step removes or changes a
\* record; an iteration of execute_signals appends exactly one TradeExecution
\* when the symbol's result has success = true (for that broker, symbol and
\* order) and nothing otherwise; no other step touches the history.
C8_HistoryAppendOnly ==
    [][ /\ IsPrefix(trade_history, trade_history')
        /\ IF SymbolExecuted
           THEN LET signal == exe.signals[exe.idx + 1]
                    entry == DictGet(exe'.results, signal.symbol)
                IN  IF Get(entry, "success", FALSE)
                    THEN /\ Len(trade_history') = Len(trade_history) + 1
                         /\ LET t == trade_history'[Len(trade_history')] IN
                            /\ t.broker_name = exe.broker
                            /\ t.symbol = signal.symbol
                            /\ t.signal_type = signal.type
                            /\ t.order_id = entry.order_id
                            /\ t.quantity = entry.quantity
                            /\ t.price = entry.price
                    ELSE trade_history' = trade_history
           ELSE trade_history' = trade_history
      ]_vars

\* a batch has ended with one symbol refused and the other traded: one record
C8_Witness ==
    /\ exe.pc = "done" /\ Len(exe.calls) = 2
    /\ exe.calls[1].sdk = "no_data" /\ exe.calls[2].sdk = "done"
    /\ Len(trade_history) = 1
    /\ trade_history[1].symbol = exe.signals[2].symbol

\* the error texts of the four placeholder connectors
NotImplementedErrors ==
    { "XTB connector not implemented", "IG connector not implemented",
      "Plus500 connector not implemented", "SabioTrade connector not implemented" }

\* C9: for every connector class, every signal of type buy or sell and every
\* strength from 0 to 1, execute_trade does not raise: it returns success =
\* true with order_id, quantity, price, symbol and type, or success = false with
\* an error; when the SDK call fails or raises the result is success = false.
C9_ExecuteTradeNeverRaises ==
    ( /\ probe.op = "execute_trade"
      /\ probe.signal.type \in {"buy", "sell"}
      /\ probe.signal.strength \in 0..10 )
    => LET r == probe.outcome.result IN
       /\ ~probe.outcome.raised
       /\ "success" \in DOMAIN r
       /\ IF r.success
          THEN /\ {"order_id", "quantity", "price", "symbol", "type"} \subseteq DOMAIN r
               /\ r.symbol = probe.signal.symbol
               /\ r.type = probe.signal.type
          ELSE "error" \in DOMAIN r
       /\ probe.sdk \notin {"done", "unused"} => ~r.success

\* the order call of an MT5-style connector has raised, the ticker call of an
\* exchange-style one likewise: both calls returned a failure
C9_Witness ==
    /\ probe.op = "execute_trade"
    /\ probe.cls \in {"MT5Connector", "CCXTConnector"}
    /\ probe.sdk \in {"order_raises", "data_raises"}
    /\ probe.signal.type = "buy" /\ probe.signal.strength = 10
    /\ ~probe.outcome.raised
    /\ probe.outcome.result = Failure("exception")

\* C10: the placeholder connectors (XTB, IG Group, Plus500, SabioTrade) report
\* that they are not implemented: connect() returns false, connect_broker for
\* these brokers returns false, none of them is ever in the connection map, and
\* execute_trade returns success = false with a 'not implemented' error.
C10_PlaceholdersNotImplemented ==
    /\ PlaceholderNames = {"XTB", "IG Group", "Plus500", "SabioTrade"}
    /\ (probe.op = "connect" /\ probe.cls \in PlaceholderClasses) => ~probe.value
    /\ (ctl.op = "connect_broker" /\ ctl.pc = "done" /\ ctl.name \in PlaceholderNames)
          => ~ctl.value
    /\ \A e \in connections : e.key \notin PlaceholderNames
    /\ (probe.op = "execute_trade" /\ probe.cls \in PlaceholderClasses) =>
          /\ ~probe.outcome.raised
          /\ ~probe.outcome.result.success
          /\ probe.outcome.result.error \in NotImplementedErrors

\* connect_broker has reached connect() of the XTB placeholder with its required
\* credentials, and a placeholder has been asked to trade
C10_Witness ==
    /\ ctl.op = "connect_broker" /\ ctl.pc = "done" /\ ctl.name = "XTB"
    /\ ctl.events = <<"validate", "create", "construct", "connect">>
    /\ ~ctl.value
    /\ probe.op = "execute_trade" /\ probe.cls = "SabioConnector"
    /\ probe.outcome.result.error = "SabioTrade connector not implemented"

----------------------------------------------------------------------------
\* Properties of the trading loop

\* the thread of session id is inside the while loop of run_trading_loop
InLoop(id) == loop[id].pc \notin {"none", "finally", "ended"}

\* the handler has passed the test of trading_active (line 198) and the
\* validation, and is on its way to create a session and start a loop thread
PastTheTest(h) == start[h].pc \in {"create", "activate"}

\* C11: at most one trading-loop instance is running in every reachable state,
\* whatever the interleaving of start_trading requests, stop_trading requests
\* and steps of the loop thread.
C11_AtMostOneLoop ==
    Cardinality({id \in SessionIds : InLoop(id)}) <= 1

\* C12: a start_trading request is not accepted while trading is active, the
\* test of the flag and its setting being one atomic step: a request that has
\* passed the test finds the flag still false until it sets it, so of two
\* concurrent requests at most one creates a session and starts a loop thread.
C12_TestAndSetAtomic ==
    \A h \in HandlerIds : PastTheTest(h) => ~app_state.trading_active

\* the thread of session id has been started and has not ended
Running(id) == loop[id].pc \notin {"none", "ended"}

\* this step begins an iteration of the loop of session id
IterationBegins(id) == loop[id].pc # "gather" /\ loop'[id].pc = "gather"

\* C13: once stop_trading has set trading_active to false, and while no start
\* sets it again, the loop sees the flag at the top of its next iteration: the
\* step at the top leaves the loop, no iteration begins, and the thread comes
\* to its end.
C13_StopIsObserved ==
    /\ [][\A id \in SessionIds :
            /\ (loop[id].pc = "top" /\ loop'[id].pc # "top" /\ ~app_state.trading_active)
                   => loop'[id].pc = "finally"
            /\ IterationBegins(id) => (loop[id].pc = "top" /\ app_state.trading_active)]_vars
    /\ \A id \in SessionIds :
          (Running(id) /\ ~app_state.trading_active)
              ~> (loop[id].pc = "ended" \/ app_state.trading_active)

\* a loop without iteration limit has run an iteration, stop_trading has
\* finalized its session, and the thread has ended from the top of the loop
C13_Witness ==
    \E id \in SessionIds :
        /\ loop[id].pc = "ended" /\ loop[id].raised = <<>>
        /\ loop[id].config.max_iterations = 0
        /\ loop[id].iteration_count >= 1
        /\ db[id].status = "stopped"
        /\ ~app_state.trading_active

\* the session record has been finalized: its status has left 'active' and its
\* end_time is set
Finalized(id) == db[id].status \in {"stopped", "completed"} /\ db[id].end_time

\* this step is the call of execute_signals for the brokers of session id
BrokerExecution(id) == loop[id].pc = "execute" /\ loop'[id].handed # <<>>

\* this step writes the signals of session id to the database
SignalPersistence(id) == loop[id].pc = "persist" /\ loop'[id].saved # <<>>

\* C14: on a stop the session record is finalized only after the in-flight
\* iteration has completed and the loop has left: no broker execution and no
\* signal persistence for a session happens once its record is finalized.
C14_NothingAfterFinalized ==
    [][\A id \in SessionIds :
          (BrokerExecution(id) \/ SignalPersistence(id)) => ~Finalized(id)]_vars

\* the statements of an iteration that can raise
IterationExceptions == {"market", "signals", "filter", "broker", "persist", "broadcast"}

\* the exceptions the except block of the iteration (line 380) receives
BroadcastExceptions == {"market", "signals", "filter", "broadcast"}

\* this step of the loop of session id is a statement raising `kind`
Raises(id, kind) == loop'[id].raised = Append(loop[id].raised, kind)

\* this step: an exception of one of `kinds` is caught by the except block of
\* the iteration, which broadcasts trading_error
CaughtAndBroadcast(id, kinds) ==
    \A kind \in kinds : Raises(id, kind) => loop'[id].pc = "handler"

\* this step: after the trading_error broadcast comes the cool-down and after
\* it the test at the top of the loop, which starts the next iteration while
\* trading is active; the loop is left only from its top or by an exception
\* raised outside the try of the iteration
CoolDownThenContinue(id) ==
    /\ (loop[id].pc = "handler" /\ loop'[id].pc # "handler") =>
           IF Raises(id, "handler") THEN loop'[id].pc = "finally"
                                    ELSE loop'[id].pc = "cooldown"
    /\ (loop[id].pc = "cooldown" /\ loop'[id].pc # "cooldown") => loop'[id].pc = "top"
    /\ (loop[id].pc = "top" /\ loop'[id].pc # "top" /\ app_state.trading_active) =>
           \/ loop'[id].pc = "gather"
           \/ loop[id].config.max_iterations > 0 /\ loop'[id].pc = "finally"
    /\ (loop[id].pc # "finally" /\ loop'[id].pc = "finally") =>
           loop[id].pc = "top" \/ Raises(id, "handler")

Symbols(signals) == {signals[i].symbol : i \in 1..Len(signals)}

\* the trades this step has added to the trade history
NewTrades == {trade_history'[i] : i \in (Len(trade_history) + 1)..Len(trade_history')}

\* this step broadcasts the signals_update of session id
SignalBroadcast(id) == loop[id].pc = "broadcast" /\ loop'[id].sent # <<>>

\* C16: in every iteration the risk filter is called before any broker
\* execution, and what the iteration hands to execute_signals, to the database
\* and to the signals_update broadcast is exactly what filter_signals returned
\* in that iteration: no trade is made for a signal the filter held back.
C16_OnlyFilteredSignals ==
    [][\A id \in SessionIds :
          /\ (loop[id].pc # "execute" /\ loop'[id].pc = "execute") =>
                 /\ loop[id].pc = "filter"
                 /\ loop'[id].all_signals = loop[id].all_signals
          /\ BrokerExecution(id) =>
                 /\ loop'[id].handed = <<loop[id].filtered_signals>>
                 /\ \A trade \in NewTrades : trade.symbol \in Symbols(loop[id].filtered_signals)
          /\ SignalPersistence(id) => loop'[id].saved = <<loop[id].filtered_signals>>
          /\ SignalBroadcast(id) => loop'[id].sent = <<loop[id].filtered_signals>>
          /\ (loop[id].pc \in {"execute", "persist", "broadcast"} /\ loop'[id].pc # "top") =>
                 loop'[id].filtered_signals = loop[id].filtered_signals]_vars

\* the filter has held back one of the two signals of the iteration; the other
\* has been traded, saved and broadcast
C16_Witness ==
    \E id \in SessionIds :
        /\ loop[id].pc = "wait"
        /\ Len(loop[id].all_signals) = 2
        /\ Len(loop[id].filtered_signals) = 1
        /\ loop[id].handed = <<loop[id].filtered_signals>>
        /\ loop[id].saved = loop[id].handed /\ loop[id].sent = loop[id].handed
        /\ Len(trade_history) = 1
        /\ trade_history[1].symbol = loop[id].filtered_signals[1].symbol

----------------------------------------------------------------------------
\* Properties of the ML signal pipeline

\* the positions of the signals of one side in the mapping
Side(signals, type) == {i \in 1..Len(signals) : signals[i].type = type}

\* the sum of strength x confidence over the signals of one side among the
\* first i
RECURSIVE SideSum(_, _, _)
SideSum(signals, type, i) ==
    IF i = 0 THEN Zero
    ELSE IF i \in Side(signals, type)
    THEN FloatAdd(SideSum(signals, type, i - 1),
                  FloatMul(signals[i].strength, signals[i].confidence))
    ELSE SideSum(signals, type, i - 1)

\* the mean weighted strength of one side, 0 for an empty side
SideMean(signals, type) ==
    IF Side(signals, type) = {} THEN Zero
    ELSE FloatDiv(SideSum(signals, type, Len(signals)), Cardinality(Side(signals, type)))

\* the sum of the confidences of the first i signals
RECURSIVE ConfidenceSum(_, _)
ConfidenceSum(signals, i) ==
    IF i = 0 THEN Zero ELSE FloatAdd(ConfidenceSum(signals, i - 1), signals[i].confidence)

\* the float x lies within a thousandth of n/1000
NearThousandths(x, n) ==
    /\ x.e < 0
    /\ (n - 1) * Pow2(0 - x.e) < 1000 * x.m
    /\ 1000 * x.m < (n + 1) * Pow2(0 - x.e)

\* a signal with strength and confidence given in tenths
SignalOf(type, strength, confidence) ==
    RawSignal(type, Decimal(strength, 10), Decimal(confidence, 10))

\* C17: the aggregator weights each signal by strength x confidence, takes the
\* mean of the buy side and of the sell side (0 for an empty side) and returns
\* the side with the strictly higher mean only if that mean is above 0.4, with
\* that mean as strength and sum(confidence)/model_count as confidence; it
\* returns None when the higher mean is at most 0.4 or the means are equal.
\* Buy signals (0.9, 0.9) and (0.8, 0.9) give buy with strength 0.765.
C17_AggregationRule ==
    (probe.op = "aggregate" /\ probe.signals # <<>>) =>
        LET signals == probe.signals
            buy == SideMean(signals, "buy")
            sell == SideMean(signals, "sell")
            higher == IF FloatGt(sell, buy) THEN sell ELSE buy
            confidence == FloatDiv(ConfidenceSum(signals, Len(signals)), Len(signals))
            result == probe.result
        IN  /\ (buy = sell \/ ~FloatGt(higher, Decimal(4, 10))) <=> result = None
            /\ (FloatGt(buy, sell) /\ FloatGt(buy, Decimal(4, 10))) =>
                  result.type = "buy" /\ result.strength = buy
            /\ (FloatGt(sell, buy) /\ FloatGt(sell, Decimal(4, 10))) =>
                  result.type = "sell" /\ result.strength = sell
            /\ result # None =>
                  /\ result.confidence = confidence
                  /\ result.models_count = Len(signals)
            /\ signals = <<SignalOf("buy", 9, 9), SignalOf("buy", 8, 9)>> =>
                  result.type = "buy" /\ NearThousandths(result.strength, 765)

\* the aggregator has returned buy for the signals (0.9, 0.9) and (0.8, 0.9)
C17_Witness ==
    /\ probe.op = "aggregate"
    /\ probe.signals = <<SignalOf("buy", 9, 9), SignalOf("buy", 8, 9)>>
    /\ probe.result.type = "buy"
    /\ probe.result.confidence = Decimal(9, 10)

\* the permutations of 1..n
Orders(n) ==
    {f \in [1..n -> 1..n] : \A i, j \in 1..n : f[i] = f[j] => i = j}

\* the mapping with its entries in the order f
Permuted(signals, f) == [i \in 1..Len(signals) |-> signals[f[i]]]

\* C18: the aggregation does not depend on the order of the mapping: for every
\* permutation of the same signals the aggregator returns the same type,
\* strength, confidence, models_count, buy_votes and sell_votes, or None for
\* all of them.
C18_OrderIndependent ==
    probe.op = "aggregate" =>
        \A f \in Orders(Len(probe.signals)) :
            aggregate_signals(Permuted(probe.signals, f)) = probe.result

\* C19 as the specification words it: two buy signals of strength 0.5 and
\* confidence 1.0 give None, no consensus.
C19_TwoHalvesGiveNone ==
    (probe.op = "aggregate"
       /\ probe.signals = <<SignalOf("buy", 5, 10), SignalOf("buy", 5, 10)>>)
        => probe.result = None

\* C19: two buy signals of strength 0.5 and confidence 1.0 have the mean
\* weighted strength 0.5, above the threshold: the aggregator returns buy with
\* strength 0.5 and confidence 1.0.  Two buy signals of strength 0.5 and
\* confidence 0.5 have the mean 0.25 and give None.
C19_TwoHalvesGiveBuy ==
    /\ (probe.op = "aggregate"
          /\ probe.signals = <<SignalOf("buy", 5, 10), SignalOf("buy", 5, 10)>>)
           => probe.result = AggregatedSignal("buy", Decimal(5, 10), Decimal(10, 10), 2, 2, 0)
    /\ (probe.op = "aggregate"
          /\ probe.signals = <<SignalOf("buy", 5, 5), SignalOf("buy", 5, 5)>>)
           => probe.result = None

\* the aggregator has returned for two buy signals of strength 0.5 and
\* confidence 1.0
C19_Witness ==
    /\ probe.op = "aggregate"
    /\ probe.signals = <<SignalOf("buy", 5, 10), SignalOf("buy", 5, 10)>>
    /\ probe.result.type = "buy"

\* the class-label lexicon of the specification
Lexicon(label) ==
    IF label \in {"buy", "long", "1", "up", "bullish"} THEN "buy"
    ELSE IF label \in {"sell", "short", "0", "-1", "down", "bearish"} THEN "sell"
    ELSE "None"

\* C20: for a model with predict_proba, the branch tried first, the normalizer
\* gives a signal only when the class of the highest probability maps to buy
\* or sell through the lexicon and that probability is above 0.6, and then the
\* signal of that class with that probability; with a probability of at most
\* 0.6 or a label outside the lexicon it returns None for the model.
C20_ProbabilityThreshold ==
    (probe.op = "predict" /\ probe.model.has_predict_proba /\ ~probe.model.proba.raised
       /\ IsStr(probe.model.proba.result.class)) =>
        LET label == Lower(probe.model.proba.result.class.text)
            probability == probe.model.proba.result.confidence
        IN  IF Lexicon(label) # "None" /\ FloatGt(probability, Decimal(6, 10))
            THEN probe.result = PredictionSignal(Lexicon(label), probability, probability)
            ELSE probe.result = None

\* a < b for floats a, b >= 0, by their values on a common exponent
Less(a, b) ==
    LET lo == Min(a.e, b.e)
    IN  a.m * Pow2(a.e - lo) < b.m * Pow2(b.e - lo)

\* a model with predict alone whose output is a plain number
PlainRegression(model) ==
    /\ ~model.has_predict_proba /\ model.has_predict /\ ~model.tensorflow
    /\ ~model.predict.raised
    /\ model.predict.result.kind \in {"int", "float", "float64"}

InUnitInterval(x) == ~Less(FromInt(1), x)

\* C22: every signal the normalizer returns, on every dispatch path and for
\* every raw output of the model, has type buy or sell, a strength in [0, 1]
\* and a confidence in [0, 1].
C22_SignalInRange ==
    (probe.op = "predict" /\ probe.result # None) =>
        /\ probe.result.type \in {"buy", "sell"}
        /\ InUnitInterval(probe.result.strength)
        /\ InUnitInterval(probe.result.confidence)

\* a tick whose fields, where present, hold numbers and which has a price
ValidTick(tick) ==
    /\ \A f \in DOMAIN tick : tick[f].ok
    /\ {"last", "price"} \cap DOMAIN tick # {}

\* C23: the feature vector has 10 basic values, 10 indicator values and 3 time
\* encodings for every valid tick, and the indicator block has 10 values for
\* every window length: a group of indicators gives the same number of values
\* computed or replaced by its default, with TA-Lib and without, and when the
\* computation raises.
C23_ConstantLength ==
    /\ probe.op = "indicators" => Len(probe.result) = 10
    /\ (probe.op = "features" /\ probe.result # None) => Len(probe.result.values) = 23
    /\ (probe.op = "features" /\ ValidTick(probe.tick) /\ probe.scaler # "misfit") =>
          probe.result # None

\* the indicator block of a window too short for the MACD but long enough for
\* the moving averages has been computed
C23_Witness ==
    /\ probe.op = "indicators"
    /\ Len(probe.prices) = 20
    /\ probe.fails = "none"
    /\ probe.talib
    /\ probe.result[1] = "talib.SMA 10"
    /\ probe.result[5] = "0.0"

\* the tick has a price: 'last' or 'price' is present
HasPrice(tick) == {"last", "price"} \cap DOMAIN tick # {}

\* C24: a tick with neither 'last' nor 'price' gives no features, and
\* generate_signals skips the symbol for every model: its result has no signal
\* for a symbol whose tick has no price.
C24_NoPriceNoSignal ==
    probe.op = "generate" =>
        \A i \in 1..Len(probe.market_data) :
            ~HasPrice(probe.market_data[i].val) =>
                ~DictHas(probe.result, probe.market_data[i].key)

\* the model's inference raises: the call that is to give its answer does
InferenceRaises(model) ==
    /\ model.has_predict /\ model.predict.raised
    /\ ~model.has_predict_proba \/ model.proba.raised

\* the model named n has an error of its own for this symbol: its features
\* cannot be built, its inference raises, or its ModelInfo cannot be read
LocalError(n, item) ==
    LET info == DictGet(ml.model_info, n)
        scaler == IF DictHas(ml.model_scalers, n) THEN DictGet(ml.model_scalers, n)
                  ELSE "none"
    IN  \/ \E f \in DOMAIN item.val : ~item.val[f].ok
        \/ scaler = "misfit"
        \/ InferenceRaises(DictGet(ml.loaded_models, n))
        \/ info.features # <<>> /\ info.parameters = None

\* the model named n is registered with its ModelInfo and is not restricted
\* to other symbols
Applies(n, item) ==
    /\ DictHas(ml.loaded_models, n) /\ DictHas(ml.model_info, n)
    /\ LET info == DictGet(ml.model_info, n)
       IN  (info.features # <<>> /\ info.parameters # None
              /\ "symbols" \in DOMAIN info.parameters)
               => item.key \in info.parameters["symbols"]

\* the signals of the models that apply to the symbol, have no error of their
\* own and give a signal
RECURSIVE SignalsWithoutErrors(_, _)
SignalsWithoutErrors(names, item) ==
    IF names = <<>> THEN <<>>
    ELSE LET n == Head(names)
             rest == SignalsWithoutErrors(Tail(names), item)
         IN  IF Applies(n, item) /\ ~LocalError(n, item)
                  /\ make_prediction(DictGet(ml.loaded_models, n)) # None
             THEN <<make_prediction(DictGet(ml.loaded_models, n))>> \o rest
             ELSE rest

\* C25: an error local to one model or one symbol (the features cannot be
\* built, the model raises during inference) does not abort the batch of
\* generate_signals: the model gives no signal for that symbol, the symbol is
\* aggregated from the signals of the other models, and every other symbol is
\* processed; a symbol is in the output exactly when at least one model gave a
\* signal and their aggregation reached a consensus.
C25_LocalErrorsDoNotAbort ==
    probe.op = "generate" =>
        \A i \in 1..Len(probe.market_data) :
            LET item == probe.market_data[i]
                signals == SignalsWithoutErrors(ModelOrder, item)
            IN  /\ DictHas(probe.result, item.key) <=>
                       (signals # <<>> /\ aggregate_signals(signals) # None)
                /\ DictHas(probe.result, item.key) =>
                       DictGet(probe.result, item.key) = aggregate_signals(signals)

\* generate_signals has returned a signal for a symbol for which one of two
\* models had an error of its own, and a signal for another symbol
C25_Witness ==
    /\ probe.op = "generate"
    /\ \E i \in 1..Len(probe.market_data) :
          LET item == probe.market_data[i]
          IN  /\ \E n \in DictKeys(ml.loaded_models) :
                    Applies(n, item) /\ LocalError(n, item)
              /\ DictHas(probe.result, item.key)
              /\ DictGet(probe.result, item.key).models_count = 1
    /\ Cardinality(probe.result) = 2

\* the call that has just returned is a load_model or a save_model that stored
\* the model under the name n
Stored(n) ==
    /\ probe'.op \in {"load", "save"}
    /\ probe'.stored = n
    /\ probe'.success

\* C26: the ModelInfo of a name exists exactly when the model has been loaded
\* or saved and not deleted since, and then the name is in loaded_models too;
\* an existing ModelInfo changes only in its description; after
\* delete_model(name) the name is in none of loaded_models, model_info and
\* model_scalers.
C26_ModelInfoLifecycle ==
    [][ /\ DictKeys(ml'.model_info) = DictKeys(ml'.loaded_models)
        /\ probe'.op = "delete" =>
              /\ ~DictHas(ml'.loaded_models, probe'.name)
              /\ ~DictHas(ml'.model_info, probe'.name)
              /\ ~DictHas(ml'.model_scalers, probe'.name)
        /\ \A n \in ModelNames :
              /\ Stored(n) => DictHas(ml'.model_info, n)
              /\ (DictHas(ml'.model_info, n) /\ ~DictHas(ml.model_info, n)) => Stored(n)
              /\ (DictHas(ml.model_info, n) /\ ~DictHas(ml'.model_info, n)) =>
                    probe'.op = "delete" /\ probe'.name = n
              /\ (DictHas(ml.model_info, n) /\ DictHas(ml'.model_info, n)
                    /\ ~Stored(n)) =>
                    [DictGet(ml'.model_info, n) EXCEPT !.description = ""]
                      = [DictGet(ml.model_info, n) EXCEPT !.description = ""]
      ]_vars


\* C27: whenever the trading loop has exited, by a stop request, by
\* max_iterations or by an exception that reaches the outer handler, the
\* trading_active flag is false: the flag is true only while the thread of
\* some session has been started and has not ended.
C27_FlagFalseAfterExit ==
    app_state.trading_active => \E id \in SessionIds : Running(id)


\* the connection of this item of the connection map drives the MT5 terminal
\* and its own disconnect() has not been called
UsesTerminal(item) ==
    /\ heap[item.val].connector.cls = "MT5Connector"
    /\ ~heap[item.val].connector.disconnect_called

\* C28: the connections of different MT5-style brokers are isolated: for every
\* broker name of the connection map whose connector has not been disconnected,
\* the MT5 terminal session is the one of that broker's own login; a connect or
\* a disconnect of another MT5-style broker neither replaces it nor shuts it
\* down.
C28_TerminalSessionIsolated ==
    \A item \in connections : UsesTerminal(item) => mt5_session = item.key


\* C29: under any interleaving of an execute_signals batch of the trading loop
\* with a disconnect_broker call of the control plane for the same broker, no
\* execute_trade call of the batch is made on a connector whose disconnect()
\* disconnect_broker has already called.
C29_NoTradeAfterTeardown ==
    \A i \in DOMAIN exe.calls : ~exe.calls[i].after_teardown


\* the results update_ddns_record returns: {'error': 'Service not started'},
\* {'success': True, ...} and {'success': False, ...}
ResultMappings == {"Service not started", "success", "failed"}

\* C30: update_ddns_record ends with a result mapping after at most
\* retry_attempts HTTP requests; it tries again only when the request raised
\* and returns on the first response it receives, whatever the response; every
\* failed attempt adds one to error_count and only a success adds one to
\* update_count; without a session it returns 'Service not started' and leaves
\* the status as it found it.
C30_UpdateTerminatesAndCounts ==
    LET call == ddns.call
        status == ddns.status
    IN  /\ call.requests <= RetryAttempts
        /\ call.responses <= 1
        /\ call.responses = 1 => call.pc = "done"
        /\ call.pc = "done" =>
             /\ call.result \in ResultMappings
             /\ status.update_count =
                  call.found.update_count + (IF call.result = "success" THEN 1 ELSE 0)
             /\ status.error_count =
                  call.found.error_count + call.retry_count
                     + (IF call.result = "failed" /\ call.responses = 1 THEN 1 ELSE 0)
             /\ call.result = "Service not started" =>
                  (status = call.found /\ call.requests = 0)
             /\ ddns.session = "None" => call.result = "Service not started"

====
